---- MODULE Spec2Model ----
(***************************************************************************)
(* A model of the flowgate pipeline engine.                                *)
(*                                                                         *)
(* Part I  : the stage runner (pkg/pipeline runStage, applyIfNeeded,       *)
(*           evaluateGates, buildGateInstances, consolidateGateFailures,   *)
(*           fingerprintViolations).                                       *)
(* Part II : the command gate (pkg/gate CommandGate.Evaluate and its       *)
(*           policy check policyBlockReason).                              *)
(*                                                                         *)
(* Hashes (sha256) are modelled as injective tuples of what is hashed.     *)
(***************************************************************************)
EXTENDS Integers, Sequences, FiniteSets, TLC

\* ------------------------------------------------------------------ bounds

\* largest stage.MaxRetries a modelled stage is configured with
MaxRetriesBound == 2
\* largest number of gates a modelled stage lists
MaxGates == 2
\* largest MaxRetries + number of gates of a modelled stage
MaxWork == 3
\* largest number of separator-split segments of a path handed to the applier
MaxSegs == 3
\* largest number of patches or file blocks of one applied output
MaxOps == 2
\* largest number of Write calls made on one evidence writer
MaxWrites == 2
\* largest number of stages of one pipeline
MaxStages == 2

\* ------------------------------------------------------------------ values

\* contents a backend may return
Contents == {"same", "other"}

PrimaryModel == "primary"
FallbackModelName == "fallback"
AdapterName == "adapter"

\* names of the gates a stage may list, in order
AllGateNames == <<"g1", "g2", "g3", "g4">>

\* what one gate's Evaluate may return: passed, passed = false, or an error
GateOutcomes == {"pass", "fail", "error"}

\* gate definitions of the pipeline: a command gate that builds, a command gate
\* naming an unknown capability, and a definition of an unsupported type
GateTypes == {"command", "unknowncap", "unsupported"}

ErrApproval == "apply for real requires explicit approval"
ErrClone == "clone to temp failed"
ErrApplyOutput == "unable to parse output as unified diff or file blocks"
ErrGateBuild == "unsupported gate type"
ErrCapability == "unknown capability"
ErrGateFailed == "gate failed"
ErrGateError == "gate error"
ErrLoop == "repair loop detected"
ErrAdapter == "adapter error"
ErrStageFailed == "stage failed"
ErrOutputBlob == "write output blob"
ErrPrepare == "stage preparation failed"

RootPath == [kind |-> "root", id |-> 0]
TempPath(n) == [kind |-> "tmp", id |-> n]

NoArt == [Content |-> "", Model |-> "", Hash |-> <<>>]
NoApply == [result |-> FALSE, path |-> RootPath, mode |-> "", cleanup |-> FALSE, err |-> "", applied |-> FALSE, cloned |-> FALSE]
NoRet == [kind |-> "running", err |-> ""]

\* ------------------------------------------------------------------ state

VARIABLES
    stage,          \* the Stage being run: MaxRetries, FallbackModel, Apply, Gates
    pipelineGates,  \* pipeline.Gates: gate name -> definition type
    opts,           \* RunOptions: ApplyForReal, ApplyApproved
    pc,             \* position of runStage
    attempt,        \* loop variable of the attempt loop
    model,          \* model passed to the next Generate
    prompt,         \* kind of prompt passed to the next Generate
    state,          \* RepairState: Attempts, Escalated
    stageRecord,    \* stageRecord.Attempts
    art,            \* artifact of the current attempt
    applyRes,       \* what applyIfNeeded returned in the current attempt
    gateResults,    \* gate results of the current attempt, in evaluation order
    gateErr,        \* error of evaluateGates in the current attempt
    evalLog,        \* every Evaluate call on a gate: attempt, gate name, outcome
    lastErr,        \* lastErr of runStage
    ret,            \* what runStage returned
    genLog,         \* every backend Generate call: model and prompt
    promptLog,      \* every repair / escalation prompt generated
    liveClones,     \* temp clones that exist on disk
    deferred,       \* deferred cleanups of runStage
    realApplies     \* ApplyOutput calls whose target was the real workspace root

stageVars == <<stage, pipelineGates, opts, pc, attempt, model, prompt, state,
               stageRecord, art, applyRes, gateResults, gateErr, evalLog, lastErr,
               ret, genLog, promptLog, liveClones, deferred, realApplies>>

VARIABLES
    gateDef,        \* the GateDefinition a command gate is built from
    gpc,            \* position of the gate: "def", "built", "builderror", "evaluated"
    gate,           \* the CommandGate built by buildGateInstances
    gateResult,     \* the GateResult CommandGate.Evaluate returned
    execCalls       \* processes CommandGate.Evaluate started (cmd.Run calls)

gateVars == <<gateDef, gpc, gate, gateResult, execCalls>>

VARIABLES
    applyRoot,      \* workspacePath of ApplyOutput: the apply root
    apc,            \* position of the applier: "plan", "apply", "done"
    opPlans,        \* the fileOps planned so far
    applied,        \* number of fileOps carried out
    touched,        \* paths written, removed or created by the applier
    applyError      \* the error the applier returned, "" for none

applyVars == <<applyRoot, apc, opPlans, applied, touched, applyError>>

VARIABLES
    disk,           \* files below and around the run directory: path and content
    writes,         \* number of Write calls made on the evidence writer
    lastWrite,      \* the last Write call: operation, path, error
    blobReturns     \* successful WriteBlob calls: kind, content, ref, sha

writerVars == <<disk, writes, lastWrite, blobReturns>>

VARIABLES
    pipelineStages, \* pipeline.Stages of the pipeline given to Run
    rpc,            \* position of Run: "idle", "start", "loop", "stage", "done"
    stageIdx,       \* index of the stage the loop of Run is at
    stageReturns,   \* what runStage returned, one entry per stage run so far
    runRet,         \* what Run returned
    runDirWrites    \* what WriteRun and WriteStage have written: run.json, and per
                    \* stage record the number of its attempts and their succeeded flags

runVars == <<pipelineStages, rpc, stageIdx, stageReturns, runRet, runDirWrites>>

VARIABLES
    manifest,       \* the Pipeline Validate is called on
    vpc,            \* position of Validate: "idle", "head", "stages", "done"
    vIdx,           \* index of the stage the loop of Validate is at
    seen,           \* stage names the loop has passed
    verr            \* the error Validate returned, "" for nil

validateVars == <<manifest, vpc, vIdx, seen, verr>>

VARIABLES
    adisk,          \* files in and around the run directory: path and content
    attStage,       \* the stage name given to BuildAttestation, separator-split
    atpc,           \* position: "idle", "build", "built", "changed", "verified", "buildfailed"
    att,            \* the attestation: as built, then as handed to VerifyAttestation
    buildErr,       \* the error BuildAttestation returned, "" for nil
    verifyErr,      \* the error VerifyAttestation returned, "" for nil
    opened,         \* the paths BuildAttestation and VerifyAttestation read
    tampered,       \* what was done to an evidence file after the build
    forged          \* what was changed in the attestation after the build

attestVars == <<adisk, attStage, atpc, att, buildErr, verifyErr, opened, tampered, forged>>

\* cost tracker and adapter calls (Part VIII)
VARIABLES tracker, callTargets, retryMaxRetries, callPc, callIdx, callAttempt,
          callReports, callRet, generateCalls, callsDone, fallbackCfg, ctxDone, callLog
costVars == <<tracker, callTargets, retryMaxRetries, callPc, callIdx, callAttempt,
              callReports, callRet, generateCalls, callsDone, fallbackCfg, ctxDone, callLog>>

\* unified diff applied to one file (Part IX)
VARIABLES origFile, wsFile, diffOutput, patchPc, parsedPatches, opPlan
patchVars == <<origFile, wsFile, diffOutput, patchPc, parsedPatches, opPlan>>

\* the hollowcheck gate writing an artifact (Part X)
VARIABLES hcFiles, hcExt, hcPc, hcWritten, hcLeft, hcErr
hollowVars == <<hcFiles, hcExt, hcPc, hcWritten, hcLeft, hcErr>>

\* the variables a stage action leaves alone
notStageVars == <<gateVars, applyVars, writerVars, runVars, validateVars, attestVars, costVars, patchVars, hollowVars>>
\* the variables a gate action leaves alone
notGateVars == <<stageVars, applyVars, writerVars, runVars, validateVars, attestVars, costVars, patchVars, hollowVars>>
\* the variables an applier action leaves alone
notApplyVars == <<stageVars, gateVars, writerVars, runVars, validateVars, attestVars, costVars, patchVars, hollowVars>>
\* the variables an evidence writer action leaves alone
notWriterVars == <<stageVars, gateVars, applyVars, runVars, validateVars, attestVars, costVars, patchVars, hollowVars>>
\* the variables a step of Run outside runStage leaves alone
notRunVars == <<gateVars, applyVars, writerVars, validateVars, attestVars, costVars, patchVars, hollowVars>>

\* the variables outside validateVars
notValidateVars == <<stageVars, gateVars, applyVars, writerVars, runVars, attestVars, costVars, patchVars, hollowVars>>

\* the variables outside attestVars
notAttestVars == <<stageVars, gateVars, applyVars, writerVars, runVars, validateVars, costVars, patchVars, hollowVars>>

\* the variables outside costVars
notCostVars == <<stageVars, gateVars, applyVars, writerVars, runVars, validateVars, attestVars, patchVars, hollowVars>>

\* the variables outside patchVars
notPatchVars == <<stageVars, gateVars, applyVars, writerVars, runVars, validateVars, attestVars, costVars, hollowVars>>

\* the variables outside hollowVars
notHollowVars == <<stageVars, gateVars, applyVars, writerVars, runVars, validateVars, attestVars, costVars, patchVars>>

vars == <<stageVars, gateVars, applyVars, writerVars, runVars, validateVars, attestVars, costVars, patchVars, hollowVars>>

\* ------------------------------------------------------------------ helpers

\* attempts := stage.MaxRetries + 1; if attempts < 1 { attempts = 1 }
\* the loop bound taken one too far
Attempts_OneMore(maxRetries) ==
    IF maxRetries + 2 < 1 THEN 1 ELSE maxRetries + 2

Attempts(maxRetries) ==
    IF maxRetries + 1 < 1 THEN 1 ELSE maxRetries + 1

\* artifact.computeHash: sha256 over content, adapter and model
computeHash(content, adapter, mdl) == <<content, adapter, mdl>>

\* hashString: sha256 over the content alone
hashString(content) == <<content>>

\* outputHash := art.Hash; if outputHash == "" { outputHash = hashString(art.Content) }
OutputHash(a) ==
    IF a.Hash = <<>> THEN hashString(a.Content) ELSE a.Hash

\* applyIfNeeded: cloneOK and applyOK are the outcomes of workspace.CloneToTemp
\* and workspace.ApplyOutput; n names the fresh temp directory
applyIfNeeded(stageApply, applyForReal, applyApproved, cloneOK, applyOK, n) ==
    IF ~stageApply
    THEN [result |-> FALSE, path |-> RootPath, mode |-> "real", cleanup |-> FALSE,
          err |-> "", applied |-> FALSE, cloned |-> FALSE]
    ELSE IF applyForReal /\ ~applyApproved
    THEN [result |-> FALSE, path |-> RootPath, mode |-> "real", cleanup |-> FALSE,
          err |-> ErrApproval, applied |-> FALSE, cloned |-> FALSE]
    ELSE IF ~applyForReal /\ ~cloneOK
    THEN [result |-> FALSE, path |-> RootPath, mode |-> "temp", cleanup |-> FALSE,
          err |-> ErrClone, applied |-> FALSE, cloned |-> FALSE]
    ELSE LET applyPath == IF applyForReal THEN RootPath ELSE TempPath(n)
             mode == IF applyForReal THEN "real" ELSE "temp"
         IN  [result |-> applyOK, path |-> applyPath, mode |-> mode,
              cleanup |-> ~applyForReal,
              err |-> IF applyOK THEN "" ELSE ErrApplyOutput,
              applied |-> TRUE, cloned |-> ~applyForReal]

\* buildGateInstances: the error of the first gate whose definition does not build
buildGateInstances(gates, defs) ==
    LET bad == {i \in 1..Len(gates) : defs[gates[i]] # "command"}
    IN  IF bad = {} THEN ""
        ELSE IF defs[gates[CHOOSE i \in bad : \A j \in bad : i <= j]] = "unknowncap"
        THEN ErrCapability
        ELSE ErrGateBuild

\* the violations one gate result carries
ViolationsOf(outcome) ==
    IF outcome = "fail" THEN {"command_failed"} ELSE {}

\* consolidateGateFailures: the violations of the consolidated failing result
consolidateGateFailures(results, applyErr) ==
    IF applyErr # ""
    THEN {"apply_failed"}
    ELSE LET vs == UNION {ViolationsOf(results[i].outcome) :
                          i \in {j \in 1..Len(results) : results[j].outcome = "fail"}}
         IN  IF vs = {} THEN {"gate_failed"} ELSE vs

\* fingerprintViolations: sha256 over the sorted violations and the apply error
fingerprintViolations(violations, applyErr) ==
    IF violations = {} /\ applyErr = ""
    THEN [violations |-> {}, apply |-> ""]
    ELSE [violations |-> violations, apply |-> applyErr]

\* the loop's decision after a failed attempt was appended to state.Attempts
\* the decision with the escalated flag never consulted: a repeated failure
\* escalates again
LoopDecision_EscalateAgain(sa, escalated, n, attempts) ==
    IF /\ Len(sa) >= 2
       /\ sa[Len(sa)].ViolationFingerprint = sa[Len(sa) - 1].ViolationFingerprint
       /\ sa[Len(sa)].OutputHash = sa[Len(sa) - 1].OutputHash
    THEN "escalate"
    ELSE IF n = attempts THEN "last" ELSE "repair"

\* the decision with the escalation step left out: a repeated failure ends
\* the stage at once
LoopDecision_NoEscalation(sa, escalated, n, attempts) ==
    IF /\ Len(sa) >= 2
       /\ sa[Len(sa)].ViolationFingerprint = sa[Len(sa) - 1].ViolationFingerprint
       /\ sa[Len(sa)].OutputHash = sa[Len(sa) - 1].OutputHash
    THEN "loop"
    ELSE IF n = attempts THEN "last" ELSE "repair"

\* the decision comparing the fingerprints only, not the output hashes
LoopDecision_FingerprintOnly(sa, escalated, n, attempts) ==
    IF /\ Len(sa) >= 2
       /\ sa[Len(sa)].ViolationFingerprint = sa[Len(sa) - 1].ViolationFingerprint
    THEN IF ~escalated THEN "escalate" ELSE "loop"
    ELSE IF n = attempts THEN "last" ELSE "repair"

LoopDecision(sa, escalated, n, attempts) ==
    IF /\ Len(sa) >= 2
       /\ sa[Len(sa)].ViolationFingerprint = sa[Len(sa) - 1].ViolationFingerprint
       /\ sa[Len(sa)].OutputHash = sa[Len(sa) - 1].OutputHash
    THEN IF ~escalated THEN "escalate" ELSE "loop"
    ELSE IF n = attempts THEN "last" ELSE "repair"

\* lastErr picked on the last attempt
FinalError(applyErr, gErr) ==
    IF applyErr # "" THEN applyErr
    ELSE IF gErr # "" THEN gErr
    ELSE ErrStageFailed

\* ------------------------------------------------------------------ Init

StageConfigs ==
    { [MaxRetries |-> r, FallbackModel |-> f, Apply |-> a,
       Gates |-> SubSeq(AllGateNames, 1, g)] :
        r \in -1..MaxRetriesBound, f \in {"", FallbackModelName},
        a \in BOOLEAN, g \in 0..MaxGates }

\* pipeline.Gates: a definition for every gate the stage lists
GateDefs(gates) == [{gates[i] : i \in 1..Len(gates)} -> GateTypes]

StageInit ==
    /\ stage \in {c \in StageConfigs : c.MaxRetries + Len(c.Gates) <= MaxWork}
    /\ pipelineGates \in GateDefs(stage.Gates)
    /\ opts \in [ApplyForReal : BOOLEAN, ApplyApproved : BOOLEAN]
    /\ pc = "start"
    /\ attempt = 1
    /\ model = PrimaryModel
    /\ prompt = "stage"
    /\ state = [Attempts |-> <<>>, Escalated |-> FALSE]
    /\ stageRecord = <<>>
    /\ art = NoArt
    /\ applyRes = NoApply
    /\ gateResults = <<>>
    /\ gateErr = ""
    /\ evalLog = <<>>
    /\ lastErr = ""
    /\ ret = NoRet
    /\ genLog = <<>>
    /\ promptLog = <<>>
    /\ liveClones = {}
    /\ deferred = <<>>
    /\ realApplies = 0


\* ------------------------------------------------------------------ runStage

\* a return of runStage: the deferred cleanups run and remove their clones
Return(kind, err) ==
    /\ ret' = [kind |-> kind, err |-> err]
    /\ liveClones' = liveClones \ {deferred[i] : i \in 1..Len(deferred)}
    /\ deferred' = <<>>
    /\ pc' = "done"

\* adapter and model lookup, prompt rendering, prompt blob (lines 162-218)
Prepare ==
    /\ pc = "start"
    /\ \E ok \in BOOLEAN :
         IF ok
         THEN /\ pc' = "generate"
              /\ UNCHANGED <<ret, liveClones, deferred>>
         ELSE Return("error", ErrPrepare)
    /\ UNCHANGED <<stage, pipelineGates, opts, attempt, model, prompt, state,
                   stageRecord, art, applyRes, gateResults, gateErr, evalLog, lastErr,
                   genLog, promptLog, realApplies>>
    /\ UNCHANGED notStageVars

\* adapterImpl.Generate and the attempt blobs (lines 226-244)
Generate ==
    /\ pc = "generate"
    /\ genLog' = Append(genLog, [model |-> model, prompt |-> prompt])
    /\ \/ /\ lastErr' = ErrAdapter
          /\ Return("error", ErrAdapter)
          /\ UNCHANGED art
       \/ \E c \in Contents :
            /\ art' = [Content |-> c, Model |-> model,
                       Hash |-> computeHash(c, AdapterName, model)]
            /\ pc' = "apply"
            /\ UNCHANGED <<lastErr, ret, liveClones, deferred>>
    /\ UNCHANGED <<stage, pipelineGates, opts, attempt, model, prompt, state,
                   stageRecord, applyRes, gateResults, gateErr, evalLog, promptLog,
                   realApplies>>
    /\ UNCHANGED notStageVars

\* applyIfNeeded and the deferred cleanup (lines 246-250)
Apply ==
    /\ pc = "apply"
    /\ \E cloneOK \in BOOLEAN, applyOK \in BOOLEAN :
         LET r == applyIfNeeded(stage.Apply, opts.ApplyForReal, opts.ApplyApproved,
                                cloneOK, applyOK, attempt)
         IN  /\ applyRes' = r
             /\ liveClones' = IF r.cloned THEN liveClones \cup {attempt} ELSE liveClones
             /\ deferred' = IF r.cleanup THEN Append(deferred, attempt) ELSE deferred
             /\ realApplies' = IF r.applied /\ r.path = RootPath
                               THEN realApplies + 1 ELSE realApplies
    /\ pc' = "gates"
    /\ UNCHANGED <<stage, pipelineGates, opts, attempt, model, prompt, state,
                   stageRecord, art, gateResults, gateErr, evalLog, lastErr, ret, genLog,
                   promptLog>>
    /\ UNCHANGED notStageVars

\* evaluateGates up to the gate loop (lines 383-393)
EnterGates ==
    /\ pc = "gates"
    /\ gateResults' = <<>>
    /\ IF Len(stage.Gates) = 0
       THEN /\ gateErr' = ""
            /\ pc' = "decide"
       ELSE LET e == buildGateInstances(stage.Gates, pipelineGates)
            IN  /\ gateErr' = e
                /\ pc' = IF e = "" THEN "evalgate" ELSE "decide"
    /\ UNCHANGED <<stage, pipelineGates, opts, attempt, model, prompt, state,
                   stageRecord, art, applyRes, evalLog, lastErr, ret, genLog,
                   promptLog, liveClones, deferred, realApplies>>
    /\ UNCHANGED notStageVars

\* what evaluateGates does with one gate's outcome: the error it returns now,
\* or "" to go on with the next gate
\* the gate loop going on after a gate that did not pass
GateStep_NoShortCircuit(name, outcome) ==
    IF outcome = "error" THEN ErrGateError
    ELSE ""

GateStep(name, outcome) ==
    IF outcome = "error" THEN ErrGateError
    ELSE IF outcome = "fail" THEN ErrGateFailed
    ELSE ""

\* one iteration of the gate loop of evaluateGates (lines 394-409)
EvalGate ==
    /\ pc = "evalgate"
    /\ \E outcome \in GateOutcomes :
         LET i == Len(gateResults) + 1
             name == stage.Gates[i]
             e == GateStep(name, outcome)
         IN  /\ gateResults' = Append(gateResults,
                                      [name |-> name, outcome |-> outcome,
                                       workspace |-> applyRes.path])
             /\ evalLog' = Append(evalLog, [attempt |-> attempt, name |-> name,
                                            outcome |-> outcome])
             /\ gateErr' = e
             /\ pc' = IF e = "" /\ i < Len(stage.Gates) THEN "evalgate" ELSE "decide"
    /\ UNCHANGED <<stage, pipelineGates, opts, attempt, model, prompt, state,
                   stageRecord, art, applyRes, lastErr, ret, genLog, promptLog,
                   liveClones, deferred, realApplies>>
    /\ UNCHANGED notStageVars

\* the AttemptRecord of the current attempt (lines 255-271)
AttemptRecord ==
    [Attempt |-> attempt,
     OutputHash |-> hashString(art.Content),
     WorkspaceUsed |-> applyRes.path,
     WorkspaceMode |-> applyRes.mode,
     GateResults |-> gateResults,
     Succeeded |-> (applyRes.err = "" /\ gateErr = ""),
     ApplyError |-> applyRes.err]

\* where the for loop goes after `continue` or the end of its body
NextIteration ==
    /\ attempt' = attempt + 1
    /\ pc' = IF attempt + 1 <= Attempts(stage.MaxRetries) THEN "generate" ELSE "afterloop"

\* the rest of the loop body once the attempt is recorded (lines 255-318)
Decide ==
    /\ pc = "decide"
    /\ stageRecord' = Append(stageRecord, AttemptRecord)
    /\ IF AttemptRecord.Succeeded
       THEN /\ lastErr' = ""
            /\ pc' = "afterloop"
            /\ UNCHANGED <<attempt, model, prompt, state, promptLog, ret,
                           liveClones, deferred>>
       ELSE LET violations == consolidateGateFailures(gateResults, applyRes.err)
                fingerprint == fingerprintViolations(violations, applyRes.err)
                sa == Append(state.Attempts,
                             [OutputHash |-> OutputHash(art),
                              ViolationFingerprint |-> fingerprint])
                d == LoopDecision(sa, state.Escalated, attempt,
                                  Attempts(stage.MaxRetries))
            IN  CASE d = "escalate" ->
                       /\ state' = [Attempts |-> sa, Escalated |-> TRUE]
                       /\ model' = IF stage.FallbackModel # ""
                                   THEN stage.FallbackModel ELSE model
                       /\ prompt' = "escalation"
                       /\ promptLog' = Append(promptLog,
                                              [kind |-> "escalation", after |-> attempt])
                       /\ NextIteration
                       /\ UNCHANGED <<lastErr, ret, liveClones, deferred>>
                  [] d = "loop" ->
                       /\ state' = [Attempts |-> sa, Escalated |-> state.Escalated]
                       /\ Return("error", ErrLoop)
                       /\ UNCHANGED <<attempt, model, prompt, promptLog, lastErr>>
                  [] d = "last" ->
                       /\ state' = [Attempts |-> sa, Escalated |-> state.Escalated]
                       /\ lastErr' = FinalError(applyRes.err, gateErr)
                       /\ pc' = "afterloop"
                       /\ UNCHANGED <<attempt, model, prompt, promptLog, ret,
                                      liveClones, deferred>>
                  [] d = "repair" ->
                       /\ state' = [Attempts |-> sa, Escalated |-> state.Escalated]
                       /\ prompt' = "repair"
                       /\ promptLog' = Append(promptLog,
                                              [kind |-> "repair", after |-> attempt])
                       /\ NextIteration
                       /\ UNCHANGED <<model, lastErr, ret, liveClones, deferred>>
    /\ UNCHANGED <<stage, pipelineGates, opts, art, applyRes, gateResults, gateErr,
                   evalLog, genLog, realApplies>>
    /\ UNCHANGED notStageVars

\* after the loop: the error return or the finalization (lines 320-355)
Finish ==
    /\ pc = "afterloop"
    /\ IF lastErr # ""
       THEN Return("error", lastErr)
       ELSE \E blobOK \in BOOLEAN :
              IF blobOK THEN Return("ok", "") ELSE Return("error", ErrOutputBlob)
    /\ UNCHANGED <<stage, pipelineGates, opts, attempt, model, prompt, state,
                   stageRecord, art, applyRes, gateResults, gateErr, evalLog, lastErr,
                   genLog, promptLog, realApplies>>
    /\ UNCHANGED notStageVars

StageNext ==
    \/ Prepare
    \/ Generate
    \/ Apply
    \/ EnterGates
    \/ EvalGate
    \/ Decide
    \/ Finish

\* ================================================================== Part II
\* the command gate: buildGateInstances (command case), CommandGate.Evaluate

\* a path string as absolute flag and separator-split segments
PathOf(str) ==
    CASE str = "" -> [abs |-> FALSE, segs |-> <<>>]
      [] str = "." -> [abs |-> FALSE, segs |-> <<".">>]
      [] str = "../x" -> [abs |-> FALSE, segs |-> <<"..", "x">>]
      [] str = "a/../b" -> [abs |-> FALSE, segs |-> <<"a", "..", "b">>]
      [] str = "a/../../x" -> [abs |-> FALSE, segs |-> <<"a", "..", "..", "x">>]
      [] str = "../outside" -> [abs |-> FALSE, segs |-> <<"..", "outside">>]
      [] str = "/outside" -> [abs |-> TRUE, segs |-> <<"outside">>]
      [] str = "/etc/passwd" -> [abs |-> TRUE, segs |-> <<"etc", "passwd">>]
      [] str = "/ws" -> [abs |-> TRUE, segs |-> <<"ws">>]
      [] OTHER -> [abs |-> FALSE, segs |-> <<str>>]

\* the process working directory, for filepath.Abs of a relative path
Cwd == [abs |-> TRUE, segs |-> <<"cwd">>]

\* filepath.Clean on one more segment h, acc being the cleaned segments so far:
\* "." is dropped, ".." eats the segment before it
CleanStep(acc, h, abs) ==
    IF h = "." \/ h = "" THEN acc
    ELSE IF h = ".."
    THEN IF acc # <<>> /\ acc[Len(acc)] # ".."
         THEN SubSeq(acc, 1, Len(acc) - 1)
         ELSE IF abs THEN acc
         ELSE Append(acc, "..")
    ELSE Append(acc, h)

\* filepath.Clean on the segments, left to right
CleanSegs(segs, abs) ==
    LET done[i \in 0..Len(segs)] ==
            IF i = 0 THEN <<>> ELSE CleanStep(done[i - 1], segs[i], abs)
    IN  done[Len(segs)]

\* the path filepath.Clean returns for cleaned segments c: the empty relative
\* result is "."
Cleaned(abs, c) ==
    IF c = <<>> /\ ~abs THEN [abs |-> FALSE, segs |-> <<".">>]
    ELSE [abs |-> abs, segs |-> c]

\* filepath.Clean
Clean(p) == Cleaned(p.abs, CleanSegs(p.segs, p.abs))

IsEmptyPath(p) == ~p.abs /\ p.segs = <<>>

\* filepath.Join of two elements: empty elements ignored, the result cleaned
Join(a, b) ==
    IF IsEmptyPath(a) /\ IsEmptyPath(b) THEN b
    ELSE Clean(IF IsEmptyPath(a) THEN b
               ELSE [abs |-> a.abs, segs |-> a.segs \o b.segs])

IsAbs(p) == p.abs

\* filepath.Abs
Abs(p) == IF p.abs THEN Clean(p) ELSE Join(Cwd, p)

\* cand == root || strings.HasPrefix(cand, root + separator), on absolute paths
underRoot(root, cand) ==
    IF cand = root THEN [ok |-> TRUE, reason |-> ""]
    ELSE IF /\ Len(cand.segs) > Len(root.segs)
            /\ SubSeq(cand.segs, 1, Len(root.segs)) = root.segs
            /\ root.segs # <<>>
    THEN [ok |-> TRUE, reason |-> ""]
    ELSE [ok |-> FALSE, reason |-> "path escapes workspace"]

confinedUnderWorkspace(workspace, candidate) ==
    underRoot(Abs(workspace), Abs(candidate))

\* the second half of isWorkspaceConfined: wd is the verdict on the working
\* directory, cand the verdict on the argument joined to its base
confinedVerdict(workdir, wd, cand) ==
    IF ~IsEmptyPath(workdir) /\ ~wd.ok
    THEN [ok |-> FALSE, reason |-> "workdir not confined: " \o wd.reason]
    ELSE IF ~cand.ok
    THEN [ok |-> FALSE, reason |-> "path not confined: " \o cand.reason]
    ELSE [ok |-> TRUE, reason |-> ""]

\* isWorkspaceConfined from the working directory on: baseCandidate is the
\* working directory made absolute under the workspace
confinedFromBase(workdir, workspace, cleanArg, baseCandidate) ==
    confinedVerdict(workdir,
        confinedUnderWorkspace(workspace, baseCandidate),
        confinedUnderWorkspace(workspace,
            Clean(Join(IF IsEmptyPath(workdir) THEN workspace ELSE baseCandidate,
                       cleanArg))))

\* isWorkspaceConfined on the argument a and its cleaned form
confinedArg(workdir, workspace, a, cleanArg) ==
    IF IsEmptyPath(workspace) THEN [ok |-> FALSE, reason |-> "workspace root not set"]
    ELSE IF IsAbs(a) THEN [ok |-> FALSE, reason |-> "absolute paths are not allowed"]
    ELSE IF cleanArg.segs = <<".">> THEN [ok |-> FALSE, reason |-> "invalid path"]
    ELSE IF \E i \in 1..Len(cleanArg.segs) : cleanArg.segs[i] = ".."
    THEN [ok |-> FALSE, reason |-> "path traversal detected"]
    ELSE confinedFromBase(workdir, workspace, cleanArg,
                          IF IsAbs(workdir) THEN workdir ELSE Join(workspace, workdir))

\* isWorkspaceConfined: arg stays within the workspace
isWorkspaceConfined(workdir, workspace, arg) ==
    confinedArg(workdir, workspace, PathOf(arg), Clean(PathOf(arg)))

\* allowedPkgArgs
allowedPkgArgs == {"./...", "./pkg/...", "./cmd/..."}

\* capabilityTemplates
capabilityTemplates(name) ==
    CASE name = "go_test" -> <<[Exec |-> "go", Args |-> <<"test", "./...">>],
                               [Exec |-> "go", Args |-> <<"test", "./pkg/...">>],
                               [Exec |-> "go", Args |-> <<"test", "./cmd/...">>]>>
      [] name = "go_vet" -> <<[Exec |-> "go", Args |-> <<"vet", "./...">>]>>
      [] name = "gofmt" -> <<[Exec |-> "gofmt", Args |-> <<"-w", "{path}">>]>>
      [] OTHER -> <<>>

KnownCapability(name) == name \in {"go_test", "go_vet", "gofmt"}

\* a {path} argument with the verdict c of isWorkspaceConfined
pathArg(acc, c) ==
    IF c.ok THEN acc ELSE [matched |-> FALSE, lastReason |-> c.reason]

\* the argument step with a literal that matches any value
ArgStep_AnyLiteral(acc, arg, value, workspaceRoot, workdir) ==
    IF arg = "{path}"
    THEN pathArg(acc, isWorkspaceConfined(workdir, workspaceRoot, value))
    ELSE IF arg = "{pkg}"
    THEN IF value \in allowedPkgArgs THEN acc
         ELSE [matched |-> FALSE, lastReason |-> "package argument not allowed"]
    ELSE acc

\* one argument of a template against the argv value at its position: acc is
\* matched and lastReason so far
ArgStep(acc, arg, value, workspaceRoot, workdir) ==
    IF arg = "{path}"
    THEN pathArg(acc, isWorkspaceConfined(workdir, workspaceRoot, value))
    ELSE IF arg = "{pkg}"
    THEN IF value \in allowedPkgArgs THEN acc
         ELSE [matched |-> FALSE, lastReason |-> "package argument not allowed"]
    ELSE IF value # arg
    THEN [matched |-> FALSE, lastReason |-> acc.lastReason]
    ELSE acc

\* the argument loop of matchTemplates for one template: `break` leaves the
\* switch only, so every argument is looked at
ArgLoop(command, args, workspaceRoot, workdir, lastReason) ==
    LET after[i \in 0..Len(args)] ==
            IF i = 0 THEN [matched |-> TRUE, lastReason |-> lastReason]
            ELSE ArgStep(after[i - 1], args[i], command[i + 1], workspaceRoot, workdir)
    IN  after[Len(args)]

\* the template loop of matchTemplates: after k templates, whether one matched
\* and the lastReason
TemplateLoop(command, templates, workspaceRoot, workdir) ==
    LET after[k \in 0..Len(templates)] ==
            IF k = 0 THEN [matched |-> FALSE, lastReason |-> ""]
            ELSE LET prev == after[k - 1]
                     tmpl == templates[k]
                 IN  IF prev.matched THEN prev
                     ELSE IF \/ tmpl.Exec = ""
                             \/ Len(command) = 0
                             \/ command[1] # tmpl.Exec
                             \/ Len(command) - 1 # Len(tmpl.Args)
                     THEN prev
                     ELSE ArgLoop(command, tmpl.Args, workspaceRoot, workdir,
                                  prev.lastReason)
    IN  after[Len(templates)]

matchTemplates(command, templates, workspaceRoot, workdir) ==
    IF Len(templates) = 0 THEN [ok |-> TRUE, reason |-> ""]
    ELSE LET r == TemplateLoop(command, templates, workspaceRoot, workdir)
         IN  IF r.matched THEN [ok |-> TRUE, reason |-> ""]
             ELSE IF r.lastReason # "" THEN [ok |-> FALSE, reason |-> r.lastReason]
             ELSE [ok |-> FALSE, reason |-> "command does not match any allowed template"]

\* strings.Join(command, " ")
JoinSpace(command) ==
    LET joined[i \in 0..Len(command)] ==
            IF i = 0 THEN ""
            ELSE IF i = 1 THEN command[1]
            ELSE joined[i - 1] \o " " \o command[i]
    IN  joined[Len(command)]

\* strings.TrimSpace on the strings of the model
TrimSpace(str) ==
    CASE str = " make " -> "make"
      [] str = "  " -> ""
      [] OTHER -> str

\* strings.Fields on the allowed entries of the model
Fields(entry) ==
    CASE entry = "go test ./..." -> <<"go", "test", "./...">>
      [] entry = "go test {pkg}" -> <<"go", "test", "{pkg}">>
      [] entry = "sh -c echo x" -> <<"sh", "-c", "echo", "x">>
      [] entry = " make " -> <<"make">>
      [] entry = "  " -> <<>>
      [] entry = "" -> <<>>
      [] OTHER -> <<entry>>

matchesAllowedExact(command, allowed) ==
    /\ Len(command) # 0
    /\ \E i \in 1..Len(allowed) :
          /\ TrimSpace(allowed[i]) # ""
          /\ TrimSpace(JoinSpace(command)) = TrimSpace(allowed[i])

\* the shell test with zsh forgotten
isShellCommand_NoZsh(command) ==
    /\ Len(command) >= 2
    /\ command[1] \in {"sh", "bash"}
    /\ command[2] = "-c"

isShellCommand(command) ==
    /\ Len(command) >= 2
    /\ command[1] \in {"sh", "bash", "zsh"}
    /\ command[2] = "-c"

\* CommandGate.policyBlockReason: "" when the command may run
policyBlockReason(g) ==
    IF ~g.denyShell /\ ~g.shellApproved
    THEN "shell execution requires explicit approval"
    ELSE IF g.denyShell /\ isShellCommand(g.command)
    THEN "shell execution is denied by policy"
    ELSE IF Len(g.templates) > 0
    THEN LET m == matchTemplates(g.command, g.templates, g.workspaceRoot, g.workdir)
         IN  IF ~m.ok THEN m.reason ELSE ""
    ELSE IF Len(g.allowed) > 0 /\ ~matchesAllowedExact(g.command, g.allowed)
    THEN "command does not match any allowed template"
    ELSE ""

\* the templates buildGateInstances derives from allowed_commands
LegacyTemplates(allowed) ==
    LET built[i \in 0..Len(allowed)] ==
            IF i = 0 THEN <<>>
            ELSE LET fields == Fields(allowed[i])
                 IN  IF Len(fields) = 0 THEN built[i - 1]
                     ELSE Append(built[i - 1],
                                 [Exec |-> fields[1], Args |-> Tail(fields)])
    IN  built[Len(allowed)]

WorkspaceRoot == PathOf("/ws")

NoGate == [name |-> "", command |-> <<>>, workdir |-> PathOf(""), allowed |-> <<>>,
           denyShell |-> TRUE, workspaceRoot |-> PathOf(""), templates |-> <<>>,
           policyMode |-> "", capability |-> "", shellApproved |-> FALSE, err |-> ""]

\* buildGateInstances, the "command" case, and NewCommandGate: the gate, or
\* the error in err
buildCommandGate(name, def, workspacePath, applyApproved) ==
    LET w == PathOf(def.Workdir)
        workdir == IF def.Workdir = "" THEN workspacePath
                   ELSE IF ~IsAbs(w) THEN Join(workspacePath, w)
                   ELSE w
        denyShell == IF def.DenyShell = "nil" THEN TRUE ELSE def.DenyShell = "true"
        mode == IF def.Capability # "" THEN "capability"
                ELSE IF Len(def.Templates) > 0 THEN "templates"
                ELSE IF Len(def.AllowedCommands) > 0 THEN "legacy"
                ELSE "none"
    IN  IF def.Capability # "" /\ ~KnownCapability(def.Capability)
        THEN [NoGate EXCEPT !.err = "unknown capability"]
        ELSE IF Len(def.Command) = 0
        THEN [NoGate EXCEPT !.err = "command gate requires a command"]
        ELSE [name |-> IF name = "" THEN def.Command[1] ELSE name,
              command |-> def.Command,
              workdir |-> workdir,
              allowed |-> IF mode = "legacy" THEN def.AllowedCommands ELSE <<>>,
              denyShell |-> denyShell,
              workspaceRoot |-> workspacePath,
              templates |-> CASE mode = "capability" -> capabilityTemplates(def.Capability)
                              [] mode = "templates" -> def.Templates
                              [] mode = "legacy" -> LegacyTemplates(def.AllowedCommands)
                              [] OTHER -> <<>>,
              policyMode |-> mode,
              capability |-> IF mode = "capability" THEN def.Capability ELSE "",
              shellApproved |-> applyApproved,
              err |-> ""]

\* the zero CommandDiagnostics
ZeroDiag == [Command |-> <<>>, Workdir |-> PathOf(""), Stdout |-> "", Stderr |-> "",
             ExitCode |-> 0, Error |-> "", BlockedReason |-> "", PolicyMode |-> "",
             Capability |-> ""]

NoResult == [Passed |-> FALSE, Score |-> 0, Kind |-> "", Violations |-> <<>>,
             RepairHints |-> <<>>, Diagnostics |-> ZeroDiag]

\* CommandGate.resultFromDiagnostics
resultFromDiagnostics(diag, passed) ==
    [Passed |-> passed, Score |-> IF passed THEN 0 ELSE 100, Kind |-> "command",
     Violations |-> <<>>, RepairHints |-> <<>>, Diagnostics |-> diag]

\* the blocked result without its violation
blockedResult_NoViolation(g, blockedReason) ==
    resultFromDiagnostics(
        [ZeroDiag EXCEPT !.Command = g.command, !.Workdir = g.workdir,
                         !.ExitCode = 1, !.BlockedReason = blockedReason,
                         !.PolicyMode = g.policyMode, !.Capability = g.capability],
        FALSE)

\* the result Evaluate returns for a blocked command (lines 184-201)
blockedResult(g, blockedReason) ==
    [resultFromDiagnostics(
        [ZeroDiag EXCEPT !.Command = g.command, !.Workdir = g.workdir,
                         !.ExitCode = 1, !.BlockedReason = blockedReason,
                         !.PolicyMode = g.policyMode, !.Capability = g.capability],
        FALSE)
     EXCEPT !.Violations = <<[Rule |-> "command_blocked", Severity |-> "error",
                              Message |-> blockedReason]>>]

\* the result Evaluate returns once cmd.Run came back (lines 216-268): run is
\* "exit" with an exit code, or "startfail" for an error that is no ExitError
ranResult(g, run, code, stderr) ==
    IF run = "startfail"
    THEN [resultFromDiagnostics(
             [ZeroDiag EXCEPT !.Command = g.command, !.Workdir = g.workdir,
                              !.Stderr = stderr, !.ExitCode = 0,
                              !.Error = "exec failed",
                              !.PolicyMode = g.policyMode, !.Capability = g.capability],
             FALSE)
          EXCEPT !.Violations = <<[Rule |-> "command_failed", Severity |-> "error",
                                   Message |-> "command failed to start"]>>]
    ELSE LET passed == code = 0
             r == resultFromDiagnostics(
                     [ZeroDiag EXCEPT !.Command = g.command, !.Workdir = g.workdir,
                                      !.Stderr = stderr, !.ExitCode = code,
                                      !.PolicyMode = g.policyMode,
                                      !.Capability = g.capability],
                     passed)
         IN  IF passed THEN r
             ELSE [r EXCEPT !.Violations =
                               <<[Rule |-> "command_failed", Severity |-> "error",
                                  Message |-> "command exited with status "
                                              \o ToString(code)]>>,
                            !.RepairHints =
                               IF stderr # ""
                               THEN <<"Review stderr output for failure details">>
                               ELSE <<>>]

\* the commands, working directories and policies of the modelled definitions
GateCommands ==
    { <<"sh", "-c", "echo x">>, <<"bash", "-c", "echo x">>, <<"zsh", "-c", "echo x">>,
      <<"sh", "script.sh">>, <<"make">>,
      <<"go", "test", "./...">>, <<"go", "test", "./internal/...">>,
      <<"go", "test">>, <<"go", "test", "./...", "-v">>, <<"go", "./...", "test">>,
      <<"gofmt", "-w", "main.go">>, <<"gofmt", "-w", "../x">>,
      <<"gofmt", "-w", "a/../b">>, <<"gofmt", "-w", "/etc/passwd">>, <<>> }

GateWorkdirs == {"", "sub", "/outside", "../outside"}

GateTemplateLists ==
    { <<>>,
      <<[Exec |-> "gofmt", Args |-> <<"-w", "{path}">>]>>,
      <<[Exec |-> "go", Args |-> <<"test", "{pkg}">>],
        [Exec |-> "sh", Args |-> <<"-c", "echo x">>]>> }

GateAllowedLists ==
    { <<>>, <<"go test ./...">>, <<"go test {pkg}">>,
      <<"  ", "sh -c echo x", " make ">> }

GateCapabilities == {"", "go_test", "gofmt", "shell"}

GateDefinitions ==
    [Command : GateCommands, Workdir : GateWorkdirs,
     DenyShell : {"nil", "true", "false"}, Capability : GateCapabilities,
     Templates : GateTemplateLists, AllowedCommands : GateAllowedLists,
     ApplyApproved : BOOLEAN]

NoGateDef == [Command |-> <<>>, Workdir |-> "", DenyShell |-> "nil", Capability |-> "",
              Templates |-> <<>>, AllowedCommands |-> <<>>, ApplyApproved |-> FALSE]

\* no gate under evaluation
GateIdle ==
    /\ gateDef = NoGateDef
    /\ gpc = "idle"
    /\ gate = NoGate
    /\ gateResult = NoResult
    /\ execCalls = 0

GateInit ==
    /\ gateDef \in GateDefinitions
    /\ gpc = "def"
    /\ gate = NoGate
    /\ gateResult = NoResult
    /\ execCalls = 0

\* buildGateInstances builds the command gate from its definition
BuildGate ==
    /\ gpc = "def"
    /\ gate' = buildCommandGate("check", gateDef, WorkspaceRoot, gateDef.ApplyApproved)
    /\ gpc' = IF gate'.err = "" THEN "built" ELSE "builderror"
    /\ UNCHANGED <<gateDef, gateResult, execCalls>>
    /\ UNCHANGED notGateVars

\* CommandGate.Evaluate: blocked by policy, or run
Evaluate ==
    /\ gpc = "built"
    /\ LET blockedReason == policyBlockReason(gate)
       IN  IF blockedReason # ""
           THEN /\ gateResult' = blockedResult(gate, blockedReason)
                /\ UNCHANGED execCalls
           ELSE /\ execCalls' = execCalls + 1
                /\ \E run \in {"exit", "startfail"}, code \in {0, 1, -1},
                      stderr \in {"", "boom"} :
                      gateResult' = ranResult(gate, run, code, stderr)
    /\ gpc' = "evaluated"
    /\ UNCHANGED <<gateDef, gate>>
    /\ UNCHANGED notGateVars

GateNext ==
    \/ BuildGate
    \/ Evaluate

\* no stage under way
StageIdle ==
    /\ stage = [MaxRetries |-> 0, FallbackModel |-> "", Apply |-> FALSE, Gates |-> <<>>]
    /\ pipelineGates = GateDefs(<<>>)
    /\ opts = [ApplyForReal |-> FALSE, ApplyApproved |-> FALSE]
    /\ pc = "idle"
    /\ attempt = 1
    /\ model = PrimaryModel
    /\ prompt = "stage"
    /\ state = [Attempts |-> <<>>, Escalated |-> FALSE]
    /\ stageRecord = <<>>
    /\ art = NoArt
    /\ applyRes = NoApply
    /\ gateResults = <<>>
    /\ gateErr = ""
    /\ evalLog = <<>>
    /\ lastErr = ""
    /\ ret = NoRet
    /\ genLog = <<>>
    /\ promptLog = <<>>
    /\ liveClones = {}
    /\ deferred = <<>>
    /\ realApplies = 0

\* ================================================================== Part III
\* the applier: workspace.ApplyOutput, applyPatches, applyFileBlocks, safeJoin

\* strings.HasPrefix(s, "..") on the first segment of a relative path
StartsDotDot(seg) == seg \in {"..", "..b"}

\* filepath.Dir of a cleaned path
Dir(p) ==
    IF Len(p.segs) <= 1
    THEN (IF p.abs THEN [abs |-> TRUE, segs |-> <<>>] ELSE [abs |-> FALSE, segs |-> <<".">>])
    ELSE [abs |-> p.abs, segs |-> SubSeq(p.segs, 1, Len(p.segs) - 1)]

\* segments of a cleaned path, "." being no segment
SegsOf(p) == IF p.segs = <<".">> THEN <<>> ELSE p.segs

\* length of the longest common prefix of two segment sequences
CommonPrefix(b, t) ==
    LET same == {k \in 0..Len(b) : k <= Len(t) /\ SubSeq(b, 1, k) = SubSeq(t, 1, k)}
    IN  CHOOSE k \in same : \A j \in same : j <= k

\* filepath.Rel on cleaned segments b (base) and t (target) sharing k segments
RelFrom(b, t, k) ==
    IF \E i \in (k + 1)..Len(b) : b[i] = ".."
    THEN [err |-> TRUE, segs |-> <<>>]
    ELSE LET up == [i \in 1..(Len(b) - k) |-> ".."]
             out == up \o SubSeq(t, k + 1, Len(t))
         IN  [err |-> FALSE, segs |-> IF out = <<>> THEN <<".">> ELSE out]

RelSegs(b, t) == RelFrom(b, t, CommonPrefix(b, t))

\* filepath.Rel on cleaned paths
RelCleaned(cb, ct) ==
    IF cb.abs # ct.abs THEN [err |-> TRUE, segs |-> <<>>]
    ELSE RelSegs(SegsOf(cb), SegsOf(ct))

\* filepath.Rel
Rel(base, targ) == RelCleaned(Clean(base), Clean(targ))

\* the end of safeJoin: the verdict on filepath.Rel(root, joined)
safeJoinChecked(joined, relCheck) ==
    IF relCheck.err \/ StartsDotDot(relCheck.segs[1])
    THEN [err |-> "path escapes workspace", path |-> joined]
    ELSE [err |-> "", path |-> joined]

safeJoinJoined(root, joined) == safeJoinChecked(joined, Rel(root, joined))

\* safeJoin once rel is cleaned
safeJoinCleaned(root, cleaned) ==
    IF cleaned.segs = <<".">> \/ StartsDotDot(cleaned.segs[1])
    THEN [err |-> "invalid path", path |-> cleaned]
    ELSE safeJoinJoined(root, Join(root, cleaned))

\* the traversal test made on rel as written, and no test of the joined path
safeJoin_RawPrefixOnly(root, rel) ==
    IF IsEmptyPath(rel) THEN [err |-> "empty path", path |-> rel]
    ELSE IF IsAbs(rel) THEN [err |-> "absolute paths are not allowed", path |-> rel]
    ELSE IF StartsDotDot(rel.segs[1]) THEN [err |-> "invalid path", path |-> rel]
    ELSE [err |-> "", path |-> Join(root, Clean(rel))]

\* safeJoin: the path under root, or the error
safeJoin(root, rel) ==
    IF IsEmptyPath(rel) THEN [err |-> "empty path", path |-> rel]
    ELSE IF IsAbs(rel) THEN [err |-> "absolute paths are not allowed", path |-> rel]
    ELSE safeJoinCleaned(root, Clean(rel))

\* names a path segment may have
SegNames == {"a", "..", ".", "", "..b"}

\* the segment sequences of at most MaxSegs segments
SegSeqs == UNION {[1..n -> SegNames] : n \in 0..MaxSegs}

\* the target paths an output may name: a relative path does not start with
\* the separator
RelInputs ==
    {[abs |-> a, segs |-> q] : a \in BOOLEAN, q \in SegSeqs}
        \ {[abs |-> FALSE, segs |-> q] : q \in {x \in SegSeqs : x # <<>> /\ x[1] = ""}}

\* the apply roots
ApplyRoots == {PathOf("/ws"), [abs |-> FALSE, segs |-> <<"ws">>],
               [abs |-> TRUE, segs |-> <<>>]}

ApplyIdle ==
    /\ applyRoot = PathOf("/ws")
    /\ apc = "idle"
    /\ opPlans = <<>>
    /\ applied = 0
    /\ touched = {}
    /\ applyError = ""

ApplyInit ==
    /\ applyRoot \in ApplyRoots
    /\ apc = "plan"
    /\ opPlans = <<>>
    /\ applied = 0
    /\ touched = {}
    /\ applyError = ""

\* the target path names a parent directory somewhere
Climbs(rel) == \E j \in 1..Len(rel.segs) : rel.segs[j] = ".."

\* what applyHunks does with the hunks of a patch: the new content, an
\* error, or the panic of a slice expression
HunkOutcomes == {"ok", "mismatch", "panic"}

ErrApplyPatch == "apply patch: context mismatch"

\* buildFileOp, and the body of the first loop of applyFileBlocks: the plan
\* for one patch or file block, or the error; a deletion and a file block
\* have no hunks to apply
buildFileOp(root, rel, del, hunks) ==
    LET j == safeJoin(root, rel)
    IN  IF j.err # "" THEN [err |-> j.err, panic |-> FALSE, plan |-> <<>>]
        ELSE IF ~del /\ hunks = "panic" THEN [err |-> "", panic |-> TRUE, plan |-> <<>>]
        ELSE IF ~del /\ hunks = "mismatch"
        THEN [err |-> ErrApplyPatch, panic |-> FALSE, plan |-> <<>>]
        ELSE [err |-> "", panic |-> FALSE,
              plan |-> <<[path |-> j.path, climbs |-> Climbs(rel),
                          absolute |-> IsAbs(rel), delete |-> del]>>]

\* the first loop going on to the plans built so far when one fails
planLoop_ApplyBuilt(plans, b) ==
    IF b.panic THEN [apc |-> "crashed", err |-> "", plans |-> plans]
    ELSE IF b.err # ""
    THEN [apc |-> IF plans = <<>> THEN "done" ELSE "apply", err |-> b.err, plans |-> plans]
    ELSE [apc |-> "plan", err |-> "", plans |-> plans \o b.plan]

\* one iteration of the first loop of applyPatches and applyFileBlocks: an
\* error is returned at once, a plan is appended
planLoop(plans, b) ==
    IF b.panic THEN [apc |-> "crashed", err |-> "", plans |-> plans]
    ELSE IF b.err # "" THEN [apc |-> "done", err |-> b.err, plans |-> plans]
    ELSE [apc |-> "plan", err |-> "", plans |-> plans \o b.plan]

\* the target paths of the patches or file blocks of one output: the first
\* is any path, the ones after it have at most one segment
PlanInputs(plans) ==
    IF plans = <<>> THEN RelInputs ELSE {r \in RelInputs : Len(r.segs) <= 1}

\* the planning loop of applyPatches (buildFileOp) and applyFileBlocks: one
\* more patch or file block; an error of buildFileOp ends the apply
PlanOp ==
    /\ apc = "plan"
    /\ Len(opPlans) < MaxOps
    /\ \E rel \in PlanInputs(opPlans), del \in BOOLEAN, hunks \in HunkOutcomes :
         LET step == planLoop(opPlans, buildFileOp(applyRoot, rel, del, hunks))
         IN  /\ apc' = step.apc
             /\ applyError' = step.err
             /\ opPlans' = step.plans
    /\ UNCHANGED <<applyRoot, applied, touched>>
    /\ UNCHANGED notApplyVars

\* all patches or file blocks are planned
StartApply ==
    /\ apc = "plan"
    /\ Len(opPlans) >= 1
    /\ apc' = "apply"
    /\ UNCHANGED <<applyRoot, opPlans, applied, touched, applyError>>
    /\ UNCHANGED notApplyVars

\* one iteration of the second loop: os.Remove, or os.MkdirAll and
\* os.WriteFile, each of which may fail
CarryOut ==
    /\ apc = "apply"
    /\ LET plan == opPlans[applied + 1]
       IN  \E outcome \in {"ok", "mkdirfail", "fail"} :
             /\ touched' =
                   IF plan.delete
                   THEN (IF outcome = "ok" THEN touched \cup {plan.path} ELSE touched)
                   ELSE CASE outcome = "ok" -> touched \cup {Dir(plan.path), plan.path}
                          [] outcome = "fail" -> touched \cup {Dir(plan.path)}
                          [] OTHER -> touched
             /\ IF outcome = "ok"
                THEN /\ applied' = applied + 1
                     /\ apc' = IF applied + 1 = Len(opPlans) THEN "done" ELSE "apply"
                     /\ UNCHANGED applyError
                ELSE /\ applyError' = "io error"
                     /\ apc' = "done"
                     /\ UNCHANGED applied
    /\ UNCHANGED <<applyRoot, opPlans>>
    /\ UNCHANGED notApplyVars

ApplyNext ==
    \/ PlanOp
    \/ StartApply
    \/ CarryOut

\* ================================================================== Part IV
\* the evidence writer: Writer.WriteRun, WriteStage, WriteGateLog, WriteBlob

\* w.runDir: baseDir/runID
RunDir == [abs |-> TRUE, segs |-> <<"evidence", "run1">>]

\* a name (separator-split) with a suffix appended: fmt.Sprintf("%s<suffix>")
WithSuffix(name, suffix) ==
    IF name = <<>> THEN <<suffix>>
    ELSE [name EXCEPT ![Len(name)] = name[Len(name)] \o suffix]

\* fmt.Sprintf("%s-%s.log", stageName, gateName), separator-split
GateLogName(stageName, gateName) ==
    LET g == WithSuffix(gateName, ".log")
    IN  SubSeq(stageName, 1, Len(stageName) - 1)
        \o <<stageName[Len(stageName)] \o "-" \o g[1]>>
        \o Tail(g)

\* filepath.Join(w.runDir, "stages", "<name>.json")
stagePath(name) ==
    Join(RunDir, [abs |-> FALSE, segs |-> <<"stages">> \o WithSuffix(name, ".json")])

\* filepath.Join(w.runDir, "gates", "<stage>-<gate>.log")
gateLogPath(stageName, gateName) ==
    Join(RunDir, [abs |-> FALSE, segs |-> <<"gates">> \o GateLogName(stageName, gateName)])

\* strings.ToLower on one character
ToLower(ch) == IF ch = "A" THEN "a" ELSE ch

\* the characters sanitizeKind keeps: a-z, 0-9, "_" and "-"
KeptChar(ch) == ch \in {"a", "0", "_", "-"}

\* sanitizeKind: kind is a sequence of characters
sanitizeKind(kind) ==
    LET sb[i \in 0..Len(kind)] ==
            IF i = 0 THEN ""
            ELSE IF KeptChar(ToLower(kind[i])) THEN sb[i - 1] \o ToLower(kind[i])
            ELSE sb[i - 1]
    IN  IF Len(kind) = 0 THEN "blob"
        ELSE IF sb[Len(kind)] = "" THEN "blob"
        ELSE sb[Len(kind)]

\* hex of sha256: injective on the contents
sha256Hex(content) == "sha256[" \o content \o "]"

\* fmt.Sprintf("%s-%s.txt", sanitized, sha)
blobFilename(kind, content) ==
    sanitizeKind(kind) \o "-" \o sha256Hex(content) \o ".txt"

\* ref: filepath.ToSlash(filepath.Join("blobs", filename))
blobRef(kind, content) == "blobs/" \o blobFilename(kind, content)

\* filepath.Join(w.runDir, ref)
blobPath(kind, content) ==
    Join(RunDir, [abs |-> FALSE, segs |-> <<"blobs", blobFilename(kind, content)>>])

\* what a failed os.WriteFile may leave in the file it had opened
Truncations(content) ==
    IF content = "xy" THEN {"", "x"} ELSE {""}

\* the disk after os.WriteFile(path, content): written in full ("ok"), not
\* opened ("noopen"), or left with part of the content ("partial")
WriteFile(d, path, content, outcome, left) ==
    CASE outcome = "ok" ->
           {f \in d : f.path # path} \cup {[path |-> path, content |-> content]}
      [] outcome = "partial" ->
           {f \in d : f.path # path} \cup {[path |-> path, content |-> left]}
      [] OTHER -> d

WriteOutcomes == {"ok", "noopen", "partial"}

Exists(d, path) == \E f \in d : f.path = path

\* stage names and gate names a manifest may carry (any non-empty string),
\* separator-split
StageNames ==
    {<<"build">>, <<"..", "build">>, <<"..", "..", "build">>, <<"a", "..", "b">>,
     <<"", "tmp", "build">>}

GateNameSet == {<<"lint">>, <<"..", "..", "..", "lint">>, <<"x", "lint">>}

\* blob kinds, as characters
BlobKinds ==
    {<<>>, <<"a">>, <<"A">>, <<".", ".", "/">>, <<"a", "/", "_">>, <<"0", "-">>}

BlobContents == {"", "x", "xy"}

NoWrite == [op |-> "", path |-> RunDir, err |-> FALSE]

WriterIdle ==
    /\ disk = {}
    /\ writes = -1
    /\ lastWrite = NoWrite
    /\ blobReturns = {}

\* NewWriter made the run directory and its three subdirectories
WriterInit ==
    /\ disk = {}
    /\ writes = 0
    /\ lastWrite = NoWrite
    /\ blobReturns = {}

\* a call of writeJSON or os.WriteFile on path
WriteTo(op, path, content) ==
    \E outcome \in WriteOutcomes, left \in Truncations(content) :
        /\ disk' = WriteFile(disk, path, content, outcome, left)
        /\ lastWrite' = [op |-> op, path |-> path, err |-> outcome # "ok"]

WriteRun ==
    /\ writes \in 0..(MaxWrites - 1)
    /\ writes' = writes + 1
    /\ WriteTo("run", Join(RunDir, [abs |-> FALSE, segs |-> <<"run.json">>]), "json")
    /\ UNCHANGED blobReturns
    /\ UNCHANGED notWriterVars

WriteStage ==
    /\ writes \in 0..(MaxWrites - 1)
    /\ writes' = writes + 1
    /\ \E name \in StageNames : WriteTo("stage", stagePath(name), "json")
    /\ UNCHANGED blobReturns
    /\ UNCHANGED notWriterVars

WriteGateLog ==
    /\ writes \in 0..(MaxWrites - 1)
    /\ writes' = writes + 1
    /\ \E stageName \in StageNames \cup {<<>>}, gateName \in GateNameSet \cup {<<>>} :
         IF stageName = <<>> \/ gateName = <<>>
         THEN /\ lastWrite' = [op |-> "gatelog", path |-> RunDir, err |-> TRUE]
              /\ UNCHANGED disk
         ELSE WriteTo("gatelog", gateLogPath(stageName, gateName), "log")
    /\ UNCHANGED blobReturns
    /\ UNCHANGED notWriterVars

WriteBlob ==
    /\ writes \in 0..(MaxWrites - 1)
    /\ writes' = writes + 1
    /\ \E kind \in BlobKinds, content \in BlobContents, statOK \in BOOLEAN :
         LET path == blobPath(kind, content)
             out == [kind |-> kind, content |-> content,
                     ref |-> blobRef(kind, content), sha |-> sha256Hex(content)]
         IN  IF ~statOK
             THEN /\ lastWrite' = [op |-> "blob", path |-> path, err |-> TRUE]
                  /\ UNCHANGED <<disk, blobReturns>>
             ELSE IF Exists(disk, path)
             THEN /\ lastWrite' = [op |-> "blob", path |-> path, err |-> FALSE]
                  /\ blobReturns' = blobReturns \cup {out}
                  /\ UNCHANGED disk
             ELSE /\ WriteTo("blob", path, content)
                  /\ blobReturns' = IF lastWrite'.err THEN blobReturns
                                    ELSE blobReturns \cup {out}
    /\ UNCHANGED notWriterVars

WriterNext ==
    \/ WriteRun
    \/ WriteStage
    \/ WriteGateLog
    \/ WriteBlob

\* ================================================================== Part V
\* the pipeline runner: Run and its loop over pipeline.Stages

ErrValidate == "invalid pipeline"
ErrNoAdapters == "no adapters configured"
ErrEvidenceWriter == "prepare evidence writer"
ErrWriteRun == "write run record"
ErrWriteStage == "write stage record"
ErrWriteGateLog == "write gate log"

\* what can stop Run before its loop (lines 75-115)
RunStartErrors == {ErrValidate, ErrNoAdapters, ErrEvidenceWriter, ErrWriteRun}

NoRunRet == [kind |-> "running", err |-> ""]

\* the gate every stage of the pipelines given to Run lists
RunGates == SubSeq(AllGateNames, 1, 1)

\* the stages of the pipelines Run is given: no retry or one, applying or not
RunStageConfigs ==
    {c \in StageConfigs : /\ c.MaxRetries \in {0, 1}
                          /\ c.FallbackModel = ""
                          /\ c.Gates = RunGates}

RunPipelines ==
    UNION {[1..n -> RunStageConfigs] : n \in 1..MaxStages}

RunIdle ==
    /\ pipelineStages = <<>>
    /\ rpc = "idle"
    /\ stageIdx = 1
    /\ stageReturns = <<>>
    /\ runRet = NoRunRet
    /\ runDirWrites = [run |-> FALSE, stages |-> <<>>]

\* the call of Run: no stage has been entered
RunInit ==
    /\ pipelineStages \in RunPipelines
    /\ rpc = "start"
    /\ stageIdx = 1
    /\ stageReturns = <<>>
    /\ runRet = NoRunRet
    /\ runDirWrites = [run |-> FALSE, stages |-> <<>>]
    /\ stage = [MaxRetries |-> 0, FallbackModel |-> "", Apply |-> FALSE, Gates |-> <<>>]
    /\ pipelineGates \in GateDefs(RunGates)
    /\ opts \in [ApplyForReal : BOOLEAN, ApplyApproved : BOOLEAN]
    /\ pc = "idle"
    /\ attempt = 1
    /\ model = PrimaryModel
    /\ prompt = "stage"
    /\ state = [Attempts |-> <<>>, Escalated |-> FALSE]
    /\ stageRecord = <<>>
    /\ art = NoArt
    /\ applyRes = NoApply
    /\ gateResults = <<>>
    /\ gateErr = ""
    /\ evalLog = <<>>
    /\ lastErr = ""
    /\ ret = NoRet
    /\ genLog = <<>>
    /\ promptLog = <<>>
    /\ liveClones = {}
    /\ deferred = <<>>
    /\ realApplies = 0

RunReturn(kind, err) ==
    /\ runRet' = [kind |-> kind, err |-> err]
    /\ rpc' = "done"

\* validation, adapters, workspace path, evidence writer, run record (lines 75-115)
RunStart ==
    /\ rpc = "start"
    /\ \/ /\ rpc' = "loop"
          /\ runDirWrites' = [runDirWrites EXCEPT !.run = TRUE]
          /\ UNCHANGED runRet
       \/ /\ \E e \in RunStartErrors : RunReturn("error", e)
          /\ UNCHANGED runDirWrites
    /\ UNCHANGED <<pipelineStages, stageIdx, stageReturns>>
    /\ UNCHANGED <<stageVars, notRunVars>>

\* the loop takes the next stage and calls runStage on it (lines 121-122)
RunStage ==
    /\ rpc = "loop"
    /\ stageIdx <= Len(pipelineStages)
    /\ rpc' = "stage"
    /\ stage' = pipelineStages[stageIdx]
    /\ pc' = "start"
    /\ attempt' = 1
    /\ model' = PrimaryModel
    /\ prompt' = "stage"
    /\ state' = [Attempts |-> <<>>, Escalated |-> FALSE]
    /\ stageRecord' = <<>>
    /\ art' = NoArt
    /\ applyRes' = NoApply
    /\ gateResults' = <<>>
    /\ gateErr' = ""
    /\ evalLog' = <<>>
    /\ lastErr' = ""
    /\ ret' = NoRet
    /\ genLog' = <<>>
    /\ promptLog' = <<>>
    /\ liveClones' = {}
    /\ deferred' = <<>>
    /\ realApplies' = 0
    /\ UNCHANGED <<pipelineGates, opts>>
    /\ UNCHANGED <<pipelineStages, stageIdx, stageReturns, runRet, runDirWrites>>
    /\ UNCHANGED notRunVars

\* after a stage whose record and gate logs were written: stop on the stage's
\* error, else go on to the next stage (lines 129-140)
AfterStage_ContinueOnError(r) ==
    /\ rpc' = "loop"
    /\ stageIdx' = stageIdx + 1
    /\ UNCHANGED runRet

AfterStage(r) ==
    IF r.kind = "error"
    THEN /\ RunReturn("error", r.err)
         /\ UNCHANGED stageIdx
    ELSE \/ /\ rpc' = "loop"
            /\ stageIdx' = stageIdx + 1
            /\ UNCHANGED runRet
         \/ /\ RunReturn("error", ErrWriteGateLog)
            /\ UNCHANGED stageIdx

\* a stage record written without its attempts
StageFile_NoAttempts ==
    [idx |-> stageIdx, attempts |-> 0, succeeded |-> {}]

\* the stage record WriteStage writes for the stage the loop is at
StageFile ==
    [idx |-> stageIdx, attempts |-> Len(stageRecord),
     succeeded |-> {stageRecord[i].Succeeded : i \in 1..Len(stageRecord)}]

\* runStage has returned: the stage record is written, then the stage's
\* error is looked at (lines 123-140)
RunAfterStage ==
    /\ rpc = "stage"
    /\ pc = "done"
    /\ stageReturns' = Append(stageReturns, ret)
    /\ \/ /\ AfterStage(ret)
          /\ runDirWrites' = [runDirWrites EXCEPT !.stages = Append(@, StageFile)]
       \/ /\ RunReturn("error", ErrWriteStage)
          /\ UNCHANGED <<stageIdx, runDirWrites>>
    /\ UNCHANGED pipelineStages
    /\ UNCHANGED <<stageVars, notRunVars>>

\* the loop is over: Run returns the results (lines 142-146)
RunFinish ==
    /\ rpc = "loop"
    /\ stageIdx > Len(pipelineStages)
    /\ RunReturn("ok", "")
    /\ UNCHANGED <<pipelineStages, stageIdx, stageReturns, runDirWrites>>
    /\ UNCHANGED <<stageVars, notRunVars>>

RunNext ==
    \/ RunStart
    \/ RunStage
    \/ StageNext
    \/ RunAfterStage
    \/ RunFinish

\* ================================================================== Part VI
\* the manifest check: Pipeline.Validate

ReservedGate == "hollowcheck"

\* an entry of pipeline.Stages that is a nil pointer
NilStage == [nil |-> TRUE, Name |-> "", Prompt |-> "", Gates |-> <<>>]

\* the gate lists of the stages given to Validate
ManifestGateLists == {<<>>, <<"g1">>, <<ReservedGate>>, <<"">>, <<"g1", "g2">>}

ManifestStages ==
    {[nil |-> FALSE, Name |-> n, Prompt |-> q, Gates |-> g] :
        n \in {"", "s1", "s2"}, q \in {"", "x"}, g \in ManifestGateLists}
    \cup {NilStage}

\* the key sets of the gates maps given to Validate
ManifestGateMaps == {{"g1"}, {"", "g1"}}

Manifests ==
    [Name : {"", "p"}, Gates : ManifestGateMaps,
     Stages : UNION {[1..n -> ManifestStages] : n \in 0..MaxStages}]

\* the verdict on one gate name of a stage (lines 47-52)
gateRefError_NoReserved(gates, gateName) ==
    IF gateName = "" THEN "empty gate name"
    ELSE IF gateName \notin gates THEN "unknown gate"
    ELSE ""

gateRefError(gates, gateName) ==
    IF gateName = "" THEN "empty gate name"
    ELSE IF gateName \notin gates /\ gateName # ReservedGate THEN "unknown gate"
    ELSE ""

\* the inner loop over stage.Gates: the error of the first bad gate name
gatesError(gates, names) ==
    LET bad == {i \in 1..Len(names) : gateRefError(gates, names[i]) # ""}
    IN  IF bad = {} THEN ""
        ELSE gateRefError(gates, names[CHOOSE i \in bad : \A j \in bad : i <= j])

\* one iteration of the loop over p.Stages (lines 36-54)
stageError(p, st, seenNames) ==
    IF st.nil THEN "panic: nil pointer dereference"
    ELSE IF st.Name = "" THEN "stage name is required"
    ELSE IF st.Prompt = "" THEN "stage must have a prompt"
    ELSE IF st.Name \in seenNames THEN "duplicate stage name"
    ELSE gatesError(p.Gates, st.Gates)

ValidateIdle ==
    /\ manifest = [Name |-> "", Gates |-> {"g1"}, Stages |-> <<>>]
    /\ vpc = "idle"
    /\ vIdx = 1
    /\ seen = {}
    /\ verr = ""

ValidateInit ==
    /\ manifest \in Manifests
    /\ vpc = "head"
    /\ vIdx = 1
    /\ seen = {}
    /\ verr = ""

\* the checks before the loop (lines 27-32)
ValidateHead ==
    /\ vpc = "head"
    /\ IF manifest.Name = ""
       THEN verr' = "pipeline name is required" /\ vpc' = "done"
       ELSE IF Len(manifest.Stages) = 0
       THEN verr' = "pipeline must define at least one stage" /\ vpc' = "done"
       ELSE verr' = verr /\ vpc' = "stages"
    /\ UNCHANGED <<manifest, vIdx, seen>>
    /\ UNCHANGED notValidateVars

\* one stage of the loop (lines 35-55)
ValidateStage ==
    /\ vpc = "stages"
    /\ vIdx <= Len(manifest.Stages)
    /\ LET e == stageError(manifest, manifest.Stages[vIdx], seen)
       IN  IF e # ""
           THEN /\ verr' = e
                /\ vpc' = "done"
                /\ UNCHANGED <<vIdx, seen>>
           ELSE /\ seen' = seen \cup {manifest.Stages[vIdx].Name}
                /\ vIdx' = vIdx + 1
                /\ UNCHANGED <<verr, vpc>>
    /\ UNCHANGED manifest
    /\ UNCHANGED notValidateVars

\* the loop is over: return nil (line 57)
ValidateAccept ==
    /\ vpc = "stages"
    /\ vIdx > Len(manifest.Stages)
    /\ vpc' = "done"
    /\ UNCHANGED <<manifest, vIdx, seen, verr>>
    /\ UNCHANGED notValidateVars

ValidateNext ==
    \/ ValidateHead
    \/ ValidateStage
    \/ ValidateAccept

\* ================================================================== Part VII
\* attestations: BuildAttestation, VerifyAttestation, verifyClaim, safeJoin of
\* package attest

SchemaV0 == "flowgate.attestation.v0"

\* the empty reference
NoRef == [abs |-> FALSE, segs |-> <<>>]
RefPrompt == [abs |-> FALSE, segs |-> <<"blobs", "p.txt">>]
RefOutput == [abs |-> FALSE, segs |-> <<"blobs", "o.txt">>]
RefTraversal == [abs |-> FALSE, segs |-> <<"..", "secrets.txt">>]
RefAbsolute == [abs |-> TRUE, segs |-> <<"etc", "passwd">>]
RefRunJSON == [abs |-> FALSE, segs |-> <<"run.json">>]
RefOutsideJSON == [abs |-> FALSE, segs |-> <<"..", "x.json">>]

\* the blob references in the order of sort.Strings:
\* "../secrets.txt" < "/etc/passwd" < "blobs/o.txt" < "blobs/p.txt"
BlobRefOrder == <<RefTraversal, RefAbsolute, RefOutput, RefPrompt>>

NoStageRec == [GateResults |-> <<>>, PromptRef |-> NoRef, OutputRef |-> NoRef,
               Attempts |-> <<>>]

\* file contents: JSON holding a record, or other bytes
FileJSON(rec) == [raw |-> "json", rec |-> rec]
FileRaw(bytes) == [raw |-> bytes, rec |-> NoStageRec]

\* hex of sha256.Sum256: injective on the contents
fileHash(content) == [sha |-> content]

\* os.ReadFile
FileAt(d, path) == (CHOOSE f \in d : f.path = path).content

\* json.Unmarshal succeeds on the JSON files
Parses(content) == content.raw = "json"

\* safeJoin of package attest once rel is known to have no ".." segment
attestSafeJoinClean(root, clean) ==
    IF clean.segs = <<".">> THEN [err |-> "invalid path", path |-> clean]
    ELSE LET rootAbs == Abs(root)
             targetAbs == Abs(Join(rootAbs, clean))
         IN  IF underRoot(rootAbs, targetAbs).ok
             THEN [err |-> "", path |-> targetAbs]
             ELSE [err |-> "path escapes run dir", path |-> targetAbs]

\* safeJoin with the ".." test made on the cleaned path
attestSafeJoin_CleanFirst(root, rel) ==
    IF IsEmptyPath(rel) THEN [err |-> "empty path", path |-> rel]
    ELSE IF IsAbs(rel) THEN [err |-> "absolute path not allowed", path |-> rel]
    ELSE attestSafeJoinClean(root, Clean(rel))

\* safeJoin of package attest
attestSafeJoin(root, rel) ==
    IF IsEmptyPath(rel) THEN [err |-> "empty path", path |-> rel]
    ELSE IF IsAbs(rel) THEN [err |-> "absolute path not allowed", path |-> rel]
    ELSE IF \E i \in 1..Len(rel.segs) : rel.segs[i] = ".."
    THEN [err |-> "path traversal detected", path |-> rel]
    ELSE attestSafeJoinClean(root, Clean(rel))

\* the order of the gate claims: by name, then by kind
NameRank(n) == CASE n = "g1" -> 1 [] n = "g2" -> 2 [] OTHER -> 3
KindRank(k) == CASE k = "command" -> 1 [] k = "hollowcheck" -> 2 [] OTHER -> 3

gateLess(a, b) ==
    IF a.Name = b.Name THEN KindRank(a.Kind) < KindRank(b.Kind)
    ELSE NameRank(a.Name) < NameRank(b.Name)

\* a sort step that puts g first whatever its rank
insertGate_Front(sorted, g) == <<g>> \o sorted

\* one step of the insertion sort sort.Slice runs on a short slice: g moves
\* left past the elements it is less than
insertGate(sorted, g) ==
    LET after == {i \in 1..Len(sorted) : gateLess(g, sorted[i])}
        keep == Len(sorted) - Cardinality(after)
    IN  SubSeq(sorted, 1, keep) \o <<g>> \o SubSeq(sorted, keep + 1, Len(sorted))

\* sort.Slice by (name, kind)
sortGates(gs) ==
    LET s[i \in 0..Len(gs)] ==
            IF i = 0 THEN <<>> ELSE insertGate(s[i - 1], gs[i])
    IN  s[Len(gs)]

\* the AND of the gate results, true for none
allPassed(gs) == \A i \in 1..Len(gs) : gs[i].Passed

\* collectStageBlobs: the non-empty references, deduplicated and sorted
collectStageBlobs(rec) ==
    LET refs == {rec.PromptRef, rec.OutputRef}
                \cup {rec.Attempts[i].PromptRef : i \in 1..Len(rec.Attempts)}
                \cup {rec.Attempts[i].OutputRef : i \in 1..Len(rec.Attempts)}
    IN  SelectSeq(BlobRefOrder, LAMBDA r : r \in refs)

\* the gate log files: name and the stage name it starts with
GateLogFiles == {[file |-> "build-g1.log", stage |-> <<"build">>],
                 [file |-> "other-g1.log", stage |-> <<"other">>]}

\* findGateLogs: the files of <runDir>/gates whose name starts with "<stage>-"
findGateLogs(d, stageName) ==
    LET hit == {l \in GateLogFiles :
                   /\ l.stage = stageName
                   /\ Exists(d, Join(RunDir, [abs |-> FALSE, segs |-> <<"gates", l.file>>]))}
    IN  IF hit = {} THEN <<>>
        ELSE <<[abs |-> FALSE, segs |-> <<"gates", (CHOOSE l \in hit : TRUE).file>>]>>

\* filepath.ToSlash(filepath.Join("stages", "<stage>.json"))
stageRel(stageName) ==
    Join([abs |-> FALSE, segs |-> <<"stages">>],
         [abs |-> FALSE, segs |-> WithSuffix(stageName, ".json")])

\* addHash of BuildAttestation on rel, acc holding err, hashes and the
\* paths read so far
addHashJoined(d, acc, rel, j) ==
    IF j.err # "" THEN [acc EXCEPT !.err = j.err]
    ELSE IF ~Exists(d, j.path)
    THEN [acc EXCEPT !.err = "no such file", !.reads = @ \cup {j.path}]
    ELSE [acc EXCEPT !.hashes = @ \cup {[rel |-> rel, sha |-> fileHash(FileAt(d, j.path))]},
                     !.reads = @ \cup {j.path}]

addHash(d, acc, rel) ==
    IF acc.err # "" THEN acc
    ELSE IF IsEmptyPath(rel) THEN acc
    ELSE IF \E h \in acc.hashes : h.rel = rel THEN acc
    ELSE addHashJoined(d, acc, rel, attestSafeJoin(RunDir, rel))

\* the addHash calls in their order: run.json, the stage JSON, blobs, gate logs
addHashes(d, rels, reads) ==
    LET h[i \in 0..Len(rels)] ==
            IF i = 0 THEN [err |-> "", hashes |-> {}, reads |-> reads]
            ELSE addHash(d, h[i - 1], rels[i])
    IN  h[Len(rels)]

NoAtt == [Schema |-> "", Claim |-> [Passed |-> FALSE, GateCount |-> 0, Gated |-> FALSE,
                                    Gates |-> <<>>],
          Evidence |-> [RunJSON |-> NoRef, StageJSON |-> NoRef, Blobs |-> <<>>,
                        GateLogs |-> <<>>],
          Hashes |-> {}]

\* BuildAttestation once both records are read and parsed
buildFromRecord(d, stageName, rec, reads) ==
    LET gateClaims == sortGates(rec.GateResults)
        blobs == collectStageBlobs(rec)
        gateLogs == findGateLogs(d, stageName)
        sRel == stageRel(stageName)
        h == addHashes(d, <<RefRunJSON, sRel>> \o blobs \o gateLogs, reads)
    IN  IF h.err # "" THEN [err |-> h.err, att |-> NoAtt, reads |-> h.reads]
        ELSE [err |-> "",
              att |-> [Schema |-> SchemaV0,
                       Claim |-> [Passed |-> allPassed(rec.GateResults),
                                  GateCount |-> Len(gateClaims),
                                  Gated |-> Len(gateClaims) > 0,
                                  Gates |-> gateClaims],
                       Evidence |-> [RunJSON |-> RefRunJSON, StageJSON |-> sRel,
                                     Blobs |-> blobs, GateLogs |-> gateLogs],
                       Hashes |-> h.hashes],
              reads |-> h.reads]

\* BuildAttestation: the two reads come first, with paths joined unchecked
BuildAttestation(d, stageName) ==
    LET runPath == Join(RunDir, RefRunJSON)
        sPath == stagePath(stageName)
    IN  IF stageName = <<>> THEN [err |-> "stageName is required", att |-> NoAtt, reads |-> {}]
        ELSE IF ~Exists(d, runPath)
        THEN [err |-> "no such file", att |-> NoAtt, reads |-> {runPath}]
        ELSE IF ~Exists(d, sPath)
        THEN [err |-> "no such file", att |-> NoAtt, reads |-> {runPath, sPath}]
        ELSE IF ~Parses(FileAt(d, runPath)) \/ ~Parses(FileAt(d, sPath))
        THEN [err |-> "invalid json", att |-> NoAtt, reads |-> {runPath, sPath}]
        ELSE buildFromRecord(d, stageName, FileAt(d, sPath).rec, {runPath, sPath})

\* parseSchemaMode
parseSchemaMode(schema) ==
    IF schema = "" THEN [mode |-> "legacy", err |-> ""]
    ELSE IF schema = SchemaV0 THEN [mode |-> "v0", err |-> ""]
    ELSE [mode |-> "legacy", err |-> "unknown attestation schema"]

\* the entry check without the comparison of the hashes
hashEntryChecked_NoCompare(d, e, j) ==
    IF j.err # "" THEN [err |-> "invalid hash path", reads |-> {}]
    ELSE IF ~Exists(d, j.path) THEN [err |-> "missing evidence file", reads |-> {j.path}]
    ELSE [err |-> "", reads |-> {j.path}]

\* one entry of att.Hashes in VerifyAttestation
hashEntryChecked(d, e, j) ==
    IF j.err # "" THEN [err |-> "invalid hash path", reads |-> {}]
    ELSE IF ~Exists(d, j.path) THEN [err |-> "missing evidence file", reads |-> {j.path}]
    ELSE IF fileHash(FileAt(d, j.path)) # e.sha
    THEN [err |-> "hash mismatch", reads |-> {j.path}]
    ELSE [err |-> "", reads |-> {j.path}]

hashEntry(d, e) == hashEntryChecked(d, e, attestSafeJoin(RunDir, e.rel))

\* legacyPassed with the attempts left out
legacyPassed_GatesOnly(rec) == allPassed(rec.GateResults)

\* the claim.passed the legacy mode expects
legacyPassed(rec) ==
    LET lastAttemptSucceeded ==
            IF Len(rec.Attempts) > 0
            THEN rec.Attempts[Len(rec.Attempts)].Succeeded
                 /\ rec.Attempts[Len(rec.Attempts)].ApplyError = ""
            ELSE Len(rec.GateResults) > 0
    IN  allPassed(rec.GateResults) /\ lastAttemptSucceeded

\* the comparison of the two sorted gate lists that ends verifyClaim
claimGatesError(a, s) ==
    IF Len(a) # Len(s) THEN "claim.gates mismatch"
    ELSE IF \E i \in 1..Len(a) : a[i] # s[i] THEN "claim gate mismatch"
    ELSE ""

\* verifyClaim with claim.passed not compared
verifyClaim_PassedUnchecked(a, rec, mode) ==
    IF mode = "v0" /\ (a.Claim.GateCount # Len(rec.GateResults)
                       \/ a.Claim.Gated # (Len(rec.GateResults) > 0))
    THEN "claim gating mismatch"
    ELSE claimGatesError(sortGates(a.Claim.Gates), sortGates(rec.GateResults))

verifyClaim(a, rec, mode) ==
    IF mode = "v0" /\ (a.Claim.GateCount # Len(rec.GateResults)
                       \/ a.Claim.Gated # (Len(rec.GateResults) > 0))
    THEN "claim gating mismatch"
    ELSE IF mode = "v0" /\ a.Claim.Passed # allPassed(rec.GateResults)
    THEN "claim.passed mismatch"
    ELSE IF mode # "v0" /\ a.Claim.Passed # legacyPassed(rec)
    THEN "claim.passed mismatch"
    ELSE claimGatesError(sortGates(a.Claim.Gates), sortGates(rec.GateResults))

\* VerifyAttestation after the loop over att.Hashes: the stage JSON and the claim
verifyStage(d, a, mode, j) ==
    IF j.err # "" THEN [err |-> "invalid stage json path", reads |-> {}]
    ELSE IF ~Exists(d, j.path) THEN [err |-> "read stage json", reads |-> {j.path}]
    ELSE IF ~Parses(FileAt(d, j.path)) THEN [err |-> "parse stage json", reads |-> {j.path}]
    ELSE [err |-> verifyClaim(a, FileAt(d, j.path).rec, mode), reads |-> {j.path}]

\* --- inputs

GatePass == [Name |-> "g1", Kind |-> "command", Passed |-> TRUE, Score |-> 0]
GateFail == [Name |-> "g1", Kind |-> "command", Passed |-> FALSE, Score |-> 100]
GateOther == [Name |-> "g2", Kind |-> "hollowcheck", Passed |-> TRUE, Score |-> 0]

AttestGateLists ==
    {<<>>, <<GatePass>>, <<GateFail>>, <<GateOther, GatePass>>, <<GatePass, GateFail>>}

AttestAttempts ==
    {<<>>,
     <<[PromptRef |-> RefPrompt, OutputRef |-> RefOutput, Succeeded |-> TRUE,
        ApplyError |-> ""]>>,
     <<[PromptRef |-> RefPrompt, OutputRef |-> RefOutput, Succeeded |-> FALSE,
        ApplyError |-> ""]>>,
     <<[PromptRef |-> RefPrompt, OutputRef |-> RefOutput, Succeeded |-> TRUE,
        ApplyError |-> "apply failed"]>>}

AttestStageRecords ==
    [GateResults : AttestGateLists,
     PromptRef : {NoRef, RefPrompt, RefTraversal, RefAbsolute},
     OutputRef : {NoRef, RefOutput},
     Attempts : AttestAttempts]

\* the stage names given to BuildAttestation: "build", "../../x", ""
AttestStageNames == {<<"build">>, <<"..", "..", "x">>, <<>>}

\* a record outside the run directory
OutsideRec == [NoStageRec EXCEPT !.GateResults = <<GatePass>>]

InRun(segs) == Join(RunDir, [abs |-> FALSE, segs |-> segs])

\* the files the run directory always has, and the files around it
FixedFiles ==
    {[path |-> InRun(<<"run.json">>), content |-> FileJSON(NoStageRec)],
     [path |-> InRun(<<"blobs", "o.txt">>), content |-> FileRaw("output")],
     [path |-> InRun(<<"gates", "other-g1.log">>), content |-> FileRaw("log")],
     [path |-> InRun(<<"..", "x.json">>), content |-> FileJSON(OutsideRec)],
     [path |-> InRun(<<"..", "secrets.txt">>), content |-> FileRaw("secret")],
     [path |-> RefAbsolute, content |-> FileRaw("passwd")]}

\* the files a run directory may or may not have
OptionalFiles ==
    {[path |-> InRun(<<"blobs", "p.txt">>), content |-> FileRaw("prompt")],
     [path |-> InRun(<<"gates", "build-g1.log">>), content |-> FileRaw("log")]}

NoChange == [kind |-> "none", rel |-> NoRef]

AttestIdle ==
    /\ adisk = {}
    /\ attStage = <<>>
    /\ atpc = "idle"
    /\ att = NoAtt
    /\ buildErr = ""
    /\ verifyErr = ""
    /\ opened = {}
    /\ tampered = NoChange
    /\ forged = NoChange

AttestInit ==
    /\ \E rec \in AttestStageRecords, opt \in SUBSET OptionalFiles :
          adisk = FixedFiles \cup opt
                  \cup {[path |-> InRun(<<"stages", "build.json">>),
                         content |-> FileJSON(rec)]}
    /\ attStage \in AttestStageNames
    /\ atpc = "build"
    /\ att = NoAtt
    /\ buildErr = ""
    /\ verifyErr = ""
    /\ opened = {}
    /\ tampered = NoChange
    /\ forged = NoChange

\* --- actions

Build ==
    /\ atpc = "build"
    /\ LET b == BuildAttestation(adisk, attStage)
       IN  /\ buildErr' = b.err
           /\ att' = b.att
           /\ opened' = b.reads
           /\ atpc' = IF b.err = "" THEN "built" ELSE "buildfailed"
    /\ UNCHANGED <<adisk, attStage, verifyErr, tampered, forged>>
    /\ UNCHANGED notAttestVars

\* the relative paths the evidence section of a lists
EvidencePaths(a) ==
    {a.Evidence.RunJSON, a.Evidence.StageJSON}
    \cup {a.Evidence.Blobs[i] : i \in 1..Len(a.Evidence.Blobs)}
    \cup {a.Evidence.GateLogs[i] : i \in 1..Len(a.Evidence.GateLogs)}

\* after the build, one file the attestation refers to is changed or removed
Tamper ==
    /\ atpc = "built"
    /\ \E rel \in EvidencePaths(att), how \in {"change", "remove"} :
         LET path == Join(RunDir, rel)
             old == CHOOSE f \in adisk : f.path = path
         IN  /\ adisk' = IF how = "remove" THEN adisk \ {old}
                         ELSE (adisk \ {old})
                              \cup {[path |-> path,
                                     content |-> [old.content EXCEPT !.raw = @ \o "!"]]}
             /\ tampered' = [kind |-> how, rel |-> rel]
    /\ atpc' = "changed"
    /\ UNCHANGED <<attStage, att, buildErr, verifyErr, opened, forged>>
    /\ UNCHANGED notAttestVars

\* the attestations a caller may hand to VerifyAttestation in place of a
ForgedFrom(a) ==
    {[kind |-> "schema", att |-> [a EXCEPT !.Schema = s]] : s \in {"", "flowgate.attestation.v99"}}
    \cup {[kind |-> "passed", att |-> [a EXCEPT !.Claim.Passed = ~@]]}
    \cup {[kind |-> "legacy_passed", att |-> [a EXCEPT !.Schema = "", !.Claim.Passed = ~@]]}
    \cup {[kind |-> "gate_count", att |-> [a EXCEPT !.Claim.GateCount = @ + 1]]}
    \cup {[kind |-> "gated", att |-> [a EXCEPT !.Claim.Gated = ~@]]}
    \cup {[kind |-> "gates", att |-> [a EXCEPT !.Claim.Gates = g]] :
             g \in {<<>>, <<GatePass>>, <<GateOther, GatePass>>, <<GateFail, GatePass>>}}
    \cup {[kind |-> "stage_json", att |-> [a EXCEPT !.Evidence.StageJSON = RefOutsideJSON]]}
    \cup {[kind |-> "hash", att |-> [a EXCEPT !.Hashes =
                                        (@ \ {h}) \cup {[h EXCEPT !.sha = fileHash(FileRaw("forged"))]}]] :
             h \in a.Hashes}
    \cup {[kind |-> "hash_path", att |-> [a EXCEPT !.Hashes =
                                        @ \cup {[rel |-> r, sha |-> fileHash(FileRaw("secret"))]}]] :
             r \in {RefTraversal, RefAbsolute}}

\* after the build, the attestation is changed before it is verified
Forge ==
    /\ atpc = "built"
    /\ \E f \in ForgedFrom(att) :
          /\ f.att # att
          /\ att' = f.att
          /\ forged' = [kind |-> f.kind, rel |-> NoRef]
    /\ atpc' = "changed"
    /\ UNCHANGED <<adisk, attStage, buildErr, verifyErr, opened, tampered>>
    /\ UNCHANGED notAttestVars

\* VerifyAttestation: the schema, the entries of att.Hashes in the order the
\* map range happens to take, the stage JSON, the claim
Verify ==
    /\ atpc \in {"built", "changed"}
    /\ LET m == parseSchemaMode(att.Schema)
           bad == {e \in att.Hashes : hashEntry(adisk, e).err # ""}
           good == UNION {hashEntry(adisk, e).reads : e \in att.Hashes \ bad}
       IN  IF m.err # ""
           THEN /\ verifyErr' = m.err
                /\ UNCHANGED opened
           ELSE IF bad # {}
           THEN \E e \in bad, before \in {{}, good} :
                   /\ verifyErr' = hashEntry(adisk, e).err
                   /\ opened' = opened \cup before \cup hashEntry(adisk, e).reads
           ELSE LET v == verifyStage(adisk, att, m.mode,
                                     attestSafeJoin(RunDir, att.Evidence.StageJSON))
                IN  /\ verifyErr' = v.err
                    /\ opened' = opened \cup good \cup v.reads
    /\ atpc' = "verified"
    /\ UNCHANGED <<adisk, attStage, att, buildErr, tampered, forged>>
    /\ UNCHANGED notAttestVars

AttestNext ==
    \/ Build
    \/ Tamper
    \/ Forge
    \/ Verify

\* ================================================================== Part VIII
\* Cost tracker and budget enforcement: pkg/pipeline (costTracker,
\* callAdapterWithPolicy).  Amounts are whole units of currency, a usage is
\* its prompt tokens in thousands, a price is the amount per thousand
\* prompt tokens.

\* number of adapter calls one run makes
MaxCalls == 2

\* t.lastUsageHint == nil
NoHint == -1
\* pricingFor finds no entry for the target
Unpriced == -1

ErrBudgetCurrent == "budget exceeded (current total)"
ErrBudgetProjected == "budget exceeded (projected total)"
ErrGenerate == "generate failed"
ErrCancelled == "context cancelled"

\* evidence.BudgetStatus; t.budgetStatus == nil is NoBudgetStatus
NoBudgetStatus == [set |-> FALSE, MaxAmount |-> 0, Exceeded |-> FALSE, Reason |-> ""]

\* newCostTracker
newCostTracker(maxBudgetUSD) ==
    [totalAmount |-> 0, maxBudgetUSD |-> maxBudgetUSD,
     budgetStatus |-> NoBudgetStatus, lastUsageHint |-> NoHint, calls |-> 0]

\* estimateCost: no pricing entry gives (zero cost, false)
estimateCost(price, usage) ==
    IF price = Unpriced THEN [Amount |-> 0, ok |-> FALSE]
    ELSE [Amount |-> usage * price, ok |-> TRUE]

\* the status checkBudget works on: allocated on first use
statusOf(t) ==
    IF t.budgetStatus.set THEN t.budgetStatus
    ELSE [set |-> TRUE, MaxAmount |-> t.maxBudgetUSD, Exceeded |-> FALSE, Reason |-> ""]

exceeded(t, reason) ==
    [t |-> [t EXCEPT !.budgetStatus = [statusOf(t) EXCEPT !.Exceeded = TRUE, !.Reason = reason]],
     err |-> reason]

\* checkBudget without the projected-total test
checkBudget_NoProjection(t, price) ==
    IF t.maxBudgetUSD <= 0 THEN [t |-> t, err |-> ""]
    ELSE IF t.totalAmount >= t.maxBudgetUSD THEN exceeded(t, ErrBudgetCurrent)
    ELSE [t |-> [t EXCEPT !.budgetStatus = statusOf(t)], err |-> ""]

\* checkBudget(adapterName, model): price is the pricing entry of the target
checkBudget(t, price) ==
    IF t.maxBudgetUSD <= 0 THEN [t |-> t, err |-> ""]
    ELSE IF t.totalAmount >= t.maxBudgetUSD THEN exceeded(t, ErrBudgetCurrent)
    ELSE IF t.lastUsageHint = NoHint
         THEN [t |-> [t EXCEPT !.budgetStatus = statusOf(t)], err |-> ""]
    ELSE IF ~estimateCost(price, t.lastUsageHint).ok
         THEN [t |-> [t EXCEPT !.budgetStatus = statusOf(t)], err |-> ""]
    ELSE IF t.totalAmount + estimateCost(price, t.lastUsageHint).Amount > t.maxBudgetUSD
         THEN exceeded(t, ErrBudgetProjected)
    ELSE [t |-> [t EXCEPT !.budgetStatus = statusOf(t)], err |-> ""]

\* recordReports: every report is kept, failed ones add nothing to the totals
RECURSIVE recordReports(_, _)
recordReports(t, reports) ==
    IF reports = <<>> THEN t
    ELSE LET report == Head(reports)
             kept == [t EXCEPT !.calls = @ + 1]
         IN recordReports(
                IF report.Error # "" THEN kept
                ELSE [kept EXCEPT !.totalAmount = @ + report.Cost,
                                  !.lastUsageHint = report.Usage],
                Tail(reports))

\* --max-budget-usd
BudgetValues == {-1, 0, 2, 3}
\* pricing entry of a call target
TargetPrices == {Unpriced, 1, 2}
\* an entry of cfg.Fallback.FallbackChain: absent, or the chain of targets
NoChain == [present |-> FALSE, chain |-> <<>>]
Chain(c) == [present |-> TRUE, chain |-> c]

\* resolveFallbackChain: the chain under "adapter/model", else the one
\* under the adapter's name
resolveFallbackChain(cfg) ==
    IF cfg.byModel.present THEN cfg.byModel.chain
    ELSE IF cfg.byAdapter.present THEN cfg.byAdapter.chain
    ELSE <<>>

\* buildTargets: the stage's adapter and model, then the fallback chain
buildTargets(primaryPrice, cfg) ==
    IF ~cfg.AllowFallback THEN <<primaryPrice>>
    ELSE <<primaryPrice>> \o resolveFallbackChain(cfg)

\* cfg.Fallback of the routing configuration
FallbackConfigs ==
    {[AllowFallback |-> FALSE, byModel |-> Chain(<<1>>), byAdapter |-> NoChain],
     [AllowFallback |-> TRUE, byModel |-> NoChain, byAdapter |-> NoChain],
     [AllowFallback |-> TRUE, byModel |-> Chain(<<1>>), byAdapter |-> NoChain],
     [AllowFallback |-> TRUE, byModel |-> NoChain, byAdapter |-> Chain(<<2, 1>>)],
     [AllowFallback |-> TRUE, byModel |-> Chain(<<1>>), byAdapter |-> Chain(<<2, 1>>)]}

\* the target lists of the calls
CallTargetLists == {buildTargets(q, cfg) : q \in TargetPrices, cfg \in FallbackConfigs}

\* IsTransient and the retry test of the attempt loop: a transient error
\* with retries left is tried again, context.Canceled is not transient
shouldRetry_AnyError(outcome, tries, maxRetries) == tries < maxRetries

shouldRetry(outcome, tries, maxRetries) ==
    outcome = "transient" /\ tries < maxRetries

\* callReport that never marks a fallback
callReport_NoFallbackFlag(usage, cost, tries, idx, error) ==
    [Usage |-> usage, Cost |-> cost, Retries |-> tries,
     FallbackUsed |-> FALSE, Error |-> error]

\* the call report appended for one target
callReport(usage, cost, tries, idx, error) ==
    [Usage |-> usage, Cost |-> cost, Retries |-> tries,
     FallbackUsed |-> idx > 1, Error |-> error]

\* resp.Usage of a successful call
UsageValues == {0, 2}

CostIdle ==
    /\ tracker = newCostTracker(0)
    /\ callTargets = <<>>
    /\ retryMaxRetries = 0
    /\ callPc = "off"
    /\ callIdx = 0
    /\ callAttempt = 0
    /\ callReports = <<>>
    /\ callRet = ""
    /\ generateCalls = 0
    /\ callsDone = 0
    /\ fallbackCfg = [AllowFallback |-> FALSE, byModel |-> NoChain, byAdapter |-> NoChain]
    /\ ctxDone = FALSE
    /\ callLog = <<>>

CostInit ==
    /\ tracker \in {newCostTracker(b) : b \in BudgetValues}
    /\ fallbackCfg \in FallbackConfigs
    /\ \E q \in TargetPrices : callTargets = buildTargets(q, fallbackCfg)
    /\ retryMaxRetries \in {0, 1}
    /\ callPc = "ready"
    /\ callIdx = 0
    /\ callAttempt = 0
    /\ callReports = <<>>
    /\ callRet = ""
    /\ generateCalls = 0
    /\ callsDone = 0
    /\ ctxDone = FALSE
    /\ callLog = <<>>

\* callAdapterWithPolicy is entered: first target, first attempt
CallStart ==
    /\ callPc = "ready"
    /\ callsDone < MaxCalls
    /\ callPc' = "check"
    /\ callIdx' = 1
    /\ callAttempt' = 0
    /\ callReports' = <<>>
    /\ callRet' = ""
    /\ callLog' = <<>>
    /\ UNCHANGED <<tracker, callTargets, retryMaxRetries, generateCalls, callsDone,
                   fallbackCfg, ctxDone>>
    /\ UNCHANGED notCostVars

\* the context is cancelled while a call is under way; the call sees it
\* at the earliest in the Generate it is about to make
CancelContext ==
    /\ callPc = "generate"
    /\ ~ctxDone
    /\ ctxDone' = TRUE
    /\ UNCHANGED <<tracker, callTargets, retryMaxRetries, callPc, callIdx, callAttempt,
                   callReports, callRet, generateCalls, callsDone, fallbackCfg, callLog>>
    /\ UNCHANGED notCostVars

\* tracker.checkBudget before Generate: an error returns from the call
CheckBudget ==
    /\ callPc = "check"
    /\ LET res == checkBudget(tracker, callTargets[callIdx])
       IN /\ tracker' = res.t
          /\ callRet' = res.err
          /\ callPc' = IF res.err # "" THEN "returned" ELSE "generate"
    /\ UNCHANGED <<callTargets, retryMaxRetries, callIdx, callAttempt, callReports,
                   generateCalls, callsDone, fallbackCfg, ctxDone, callLog>>
    /\ UNCHANGED notCostVars

\* one Generate call as the log keeps it
LogEntry(outcome) ==
    [idx |-> callIdx, attempt |-> callAttempt, outcome |-> outcome]

\* adapterImpl.Generate succeeds: one report with the usage and its cost
GenerateOk ==
    /\ callPc = "generate"
    /\ \E usage \in UsageValues :
          callReports' = Append(callReports,
              callReport(usage, estimateCost(callTargets[callIdx], usage).Amount,
                         callAttempt, callIdx, ""))
    /\ generateCalls' = generateCalls + 1
    /\ callLog' = Append(callLog, LogEntry("ok"))
    /\ callRet' = ""
    /\ callPc' = "returned"
    /\ UNCHANGED <<tracker, callTargets, retryMaxRetries, callIdx, callAttempt, callsDone,
                   fallbackCfg, ctxDone>>
    /\ UNCHANGED notCostVars

\* adapterImpl.Generate fails with a transient error, a permanent error or,
\* the context being cancelled, context.Canceled.  An error to retry sleeps
\* the backoff, where a cancellation ends the call, and tries again;
\* otherwise a failed report is kept and the loop breaks to the next
\* target, the last error returned when none is left
GenerateFail ==
    /\ callPc = "generate"
    /\ generateCalls' = generateCalls + 1
    /\ \E outcome \in {"transient", "permanent"} \cup (IF ctxDone THEN {"canceled"} ELSE {}),
          sleepCancelled \in BOOLEAN :
          /\ callLog' = Append(callLog, LogEntry(outcome))
          /\ IF shouldRetry(outcome, callAttempt, retryMaxRetries)
             THEN /\ callReports' = callReports
                  /\ callIdx' = callIdx
                  /\ IF sleepCancelled
                     THEN callPc' = "returned" /\ callRet' = ErrCancelled
                                               /\ callAttempt' = callAttempt
                                               /\ ctxDone' = TRUE
                     ELSE callPc' = "check" /\ callRet' = ""
                                            /\ callAttempt' = callAttempt + 1
                                            /\ ctxDone' = ctxDone
             ELSE /\ ~sleepCancelled
                  /\ ctxDone' = ctxDone
                  /\ callReports' = Append(callReports,
                         callReport(0, 0, callAttempt, callIdx,
                                    IF outcome = "canceled" THEN ErrCancelled
                                    ELSE ErrGenerate))
                  /\ IF callIdx < Len(callTargets)
                     THEN callPc' = "check" /\ callRet' = "" /\ callIdx' = callIdx + 1
                                            /\ callAttempt' = 0
                     ELSE callPc' = "returned"
                          /\ callRet' = (IF outcome = "canceled" THEN ErrCancelled
                                         ELSE ErrGenerate)
                          /\ callIdx' = callIdx
                          /\ callAttempt' = callAttempt
    /\ UNCHANGED <<tracker, callTargets, retryMaxRetries, callsDone, fallbackCfg>>
    /\ UNCHANGED notCostVars

\* the caller records the reports of the call, whose locals are gone; an
\* error ends the run
CallReturn ==
    /\ callPc = "returned"
    /\ tracker' = recordReports(tracker, callReports)
    /\ callsDone' = callsDone + 1
    /\ callPc' = IF callRet # "" THEN "aborted" ELSE "ready"
    /\ callIdx' = 0
    /\ callAttempt' = 0
    /\ callReports' = <<>>
    /\ callLog' = <<>>
    /\ UNCHANGED <<callTargets, retryMaxRetries, callRet, generateCalls, fallbackCfg,
                   ctxDone>>
    /\ UNCHANGED notCostVars

CostNext ==
    \/ CallStart
    \/ CancelContext
    \/ CheckBudget
    \/ GenerateOk
    \/ GenerateFail
    \/ CallReturn

\* ================================================================== Part IX
\* Unified diffs: pkg/workspace (ParseUnifiedDiff, parseHunk, applyHunks,
\* splitLines, buildFileOp).  A string is the sequence of its characters; the
\* lines of the diff text are records, tagged by the prefix the parser tests.

\* longest file content, in characters
MaxContent == 3
\* largest number of hunks of the diff
MaxHunks == 2

NL == "\n"
ContentChars == {"a", "b", NL}

ErrExpectedNew == "expected +++ after ---"
ErrNoDiff == "no unified diff content found"
ErrHunkStart == "invalid hunk start"
ErrBeyond == "hunk starts beyond file length"
ErrContext == "context mismatch"
ErrDelete == "delete mismatch"
ErrHunkLine == "invalid hunk line"
ErrSliceBounds == "panic: slice bounds out of range"

\* strings.Split(s, "\n"): the pieces between newlines, at least one
RECURSIVE SplitFrom(_, _, _)
SplitFrom(s, i, piece) ==
    IF i > Len(s) THEN <<piece>>
    ELSE IF s[i] = NL THEN <<piece>> \o SplitFrom(s, i + 1, <<>>)
    ELSE SplitFrom(s, i + 1, Append(piece, s[i]))

StringsSplit(s) == SplitFrom(s, 1, <<>>)

\* strings.Join(lines, "\n")
RECURSIVE StringsJoin(_)
StringsJoin(ls) ==
    IF ls = <<>> THEN <<>>
    ELSE IF Len(ls) = 1 THEN ls[1]
    ELSE ls[1] \o <<NL>> \o StringsJoin(Tail(ls))

HasSuffixNL(s) == s # <<>> /\ s[Len(s)] = NL

\* splitLines: one trailing newline is dropped before the split
splitLines(c) ==
    IF c = <<>> THEN <<>>
    ELSE IF HasSuffixNL(c) THEN StringsSplit(SubSeq(c, 1, Len(c) - 1))
    ELSE StringsSplit(c)

\* lines of a diff text: "--- a/f", "+++ b/f", "@@ -s,n +s,n @@",
\* "\ No newline at end of file", and any other line with its text
OldHeader == [tag |-> "---", text |-> <<>>, start |-> 0, count |-> 0]
NewHeader == [tag |-> "+++", text |-> <<>>, start |-> 0, count |-> 0]
HunkHeader(s, n) == [tag |-> "@@", text |-> <<>>, start |-> s, count |-> n]
NoNewlineMarker == [tag |-> "\\", text |-> <<>>, start |-> 0, count |-> 0]
TextLine(t) == [tag |-> "", text |-> t, start |-> 0, count |-> 0]

\* strings.Split(input, "\n") of the diff text: a text that ends with a
\* newline gives one more, empty, line
inputLines(d) == IF d.trailingNewline THEN Append(d.lines, TextLine(<<>>)) ELSE d.lines

\* parseHunk: the lines after the header up to the next "@@" or "--- ",
\* lines starting with a backslash skipped
RECURSIVE hunkLines(_, _, _)
hunkLines(ls, i, acc) ==
    IF i > Len(ls) THEN [Lines |-> acc, next |-> i]
    ELSE IF ls[i].tag \in {"@@", "---"} THEN [Lines |-> acc, next |-> i]
    ELSE IF ls[i].tag = "\\" THEN hunkLines(ls, i + 1, acc)
    ELSE hunkLines(ls, i + 1, Append(acc, ls[i].text))

parseHunk(ls, start) ==
    LET body == hunkLines(ls, start + 1, <<>>)
    IN [hunk |-> [OldStart |-> ls[start].start, OldLines |-> ls[start].count,
                  NewStart |-> ls[start].start, NewLines |-> ls[start].count,
                  Lines |-> body.Lines],
        next |-> body.next]

\* the hunk loop of ParseUnifiedDiff for one patch
RECURSIVE patchHunks(_, _, _)
patchHunks(ls, i, acc) ==
    IF i <= Len(ls) /\ ls[i].tag = "@@"
    THEN patchHunks(ls, parseHunk(ls, i).next, Append(acc, parseHunk(ls, i).hunk))
    ELSE [Hunks |-> acc, next |-> i]

\* the file loop of ParseUnifiedDiff
RECURSIVE parseFrom(_, _, _)
parseFrom(ls, i, acc) ==
    IF i > Len(ls) THEN [patches |-> acc, err |-> IF acc = <<>> THEN ErrNoDiff ELSE ""]
    ELSE IF ls[i].tag # "---" THEN parseFrom(ls, i + 1, acc)
    ELSE IF i + 1 > Len(ls) \/ ls[i + 1].tag # "+++"
         THEN [patches |-> <<>>, err |-> ErrExpectedNew]
    ELSE parseFrom(ls, patchHunks(ls, i + 2, <<>>).next,
                   Append(acc, [Hunks |-> patchHunks(ls, i + 2, <<>>).Hunks]))

ParseUnifiedDiff(d) == parseFrom(inputLines(d), 1, <<>>)

\* the loop of applyHunks over the lines of one hunk
RECURSIVE applyLines(_, _, _, _, _)
applyLines(oldLines, hl, k, index, newLines) ==
    IF k > Len(hl) THEN [index |-> index, newLines |-> newLines, err |-> ""]
    ELSE IF hl[k] = <<>> THEN applyLines(oldLines, hl, k + 1, index, Append(newLines, <<>>))
    ELSE IF hl[k][1] = " "
         THEN IF index >= Len(oldLines) \/ oldLines[index + 1] # Tail(hl[k])
              THEN [index |-> index, newLines |-> newLines, err |-> ErrContext]
              ELSE applyLines(oldLines, hl, k + 1, index + 1, Append(newLines, Tail(hl[k])))
    ELSE IF hl[k][1] = "-"
         THEN IF index >= Len(oldLines) \/ oldLines[index + 1] # Tail(hl[k])
              THEN [index |-> index, newLines |-> newLines, err |-> ErrDelete]
              ELSE applyLines(oldLines, hl, k + 1, index + 1, newLines)
    ELSE IF hl[k][1] = "+"
         THEN applyLines(oldLines, hl, k + 1, index, Append(newLines, Tail(hl[k])))
    ELSE [index |-> index, newLines |-> newLines, err |-> ErrHunkLine]

\* the loop of applyHunks over the hunks; index counts the old lines consumed
RECURSIVE applyFrom(_, _, _, _, _)
applyFrom(oldLines, hunks, h, index, newLines) ==
    IF h > Len(hunks)
    THEN [content |-> StringsJoin(newLines \o SubSeq(oldLines, index + 1, Len(oldLines))),
          err |-> ""]
    ELSE IF hunks[h].OldStart < 0 THEN [content |-> <<>>, err |-> ErrHunkStart]
    ELSE LET targetIndex == IF hunks[h].OldStart - 1 < 0 THEN 0 ELSE hunks[h].OldStart - 1
         IN IF targetIndex > Len(oldLines) THEN [content |-> <<>>, err |-> ErrBeyond]
            ELSE IF targetIndex < index THEN [content |-> <<>>, err |-> ErrSliceBounds]
            ELSE LET body == applyLines(oldLines, hunks[h].Lines, 1, targetIndex,
                                        newLines \o SubSeq(oldLines, index + 1, targetIndex))
                 IN IF body.err # "" THEN [content |-> <<>>, err |-> body.err]
                    ELSE applyFrom(oldLines, hunks, h + 1, body.index, body.newLines)

applyHunks(original, hunks) == applyFrom(splitLines(original), hunks, 1, 0, <<>>)

\* file contents of up to n characters
RECURSIVE FileContents(_)
FileContents(n) ==
    IF n = 0 THEN {<<>>}
    ELSE FileContents(n - 1) \cup {Append(c, ch) : c \in FileContents(n - 1), ch \in ContentChars}

\* the (start, count) ranges a hunk of context lines can cover in a file of
\* n lines; the empty file has the one range -0,0
HunkRanges(n) ==
    IF n = 0 THEN {<<0, 0>>}
    ELSE {<<s, k>> : s \in 1..n, k \in 1..n} \cap
         {r \in (1..n) \X (1..n) : r[1] + r[2] - 1 <= n}

\* ordered, disjoint lists of up to m ranges
RECURSIVE RangeLists(_, _)
RangeLists(n, m) ==
    IF m = 1 THEN {<<r>> : r \in HunkRanges(n)}
    ELSE RangeLists(n, m - 1) \cup
         {Append(q[1], q[2]) :
             q \in {x \in RangeLists(n, m - 1) \X HunkRanges(n) :
                       \A j \in 1..Len(x[1]) : x[1][j][1] + x[1][j][2] <= x[2][1]}}

\* the context lines of one range of the file, each behind a space
ContextLines(fileLines, r) ==
    [k \in 1..r[2] |-> TextLine(<<" ">> \o fileLines[r[1] + k - 1])]

\* the lines of a diff of one file with one hunk of context lines per range
RECURSIVE HunkText(_, _, _)
HunkText(fileLines, rs, j) ==
    IF j > Len(rs) THEN <<>>
    ELSE <<HunkHeader(rs[j][1], rs[j][2])>> \o ContextLines(fileLines, rs[j])
         \o HunkText(fileLines, rs, j + 1)

\* diff texts whose hunks hold only context lines of the file: with or
\* without the marker of a missing final newline after a hunk that reaches
\* the end of such a file, with or without a newline at the end of the text
ContextDiffs(c) ==
    LET fileLines == splitLines(c)
        n == Len(fileLines)
        last(rs) == rs[Len(rs)]
        marked(rs) == n > 0 /\ ~HasSuffixNL(c) /\ last(rs)[1] + last(rs)[2] - 1 = n
        text(rs, mk, nl) ==
            [lines |-> <<OldHeader, NewHeader>> \o HunkText(fileLines, rs, 1)
                       \o (IF mk THEN <<NoNewlineMarker>> ELSE <<>>),
             trailingNewline |-> nl]
    IN UNION {{text(rs, mk, nl) : mk \in {FALSE, marked(rs)}, nl \in BOOLEAN} :
                 rs \in RangeLists(n, MaxHunks)}

\* pairs of ranges whose second starts before the line the first has
\* consumed: hunks out of order or overlapping
OutOfOrderLists(n) ==
    {q \in HunkRanges(n) \X HunkRanges(n) : n > 0 /\ q[2][1] < q[1][1] + q[1][2]}

\* diff texts of context lines of the file whose two hunks are out of order
OutOfOrderDiffs(c) ==
    {[lines |-> <<OldHeader, NewHeader>> \o HunkText(splitLines(c), rs, 1),
      trailingNewline |-> FALSE] : rs \in OutOfOrderLists(Len(splitLines(c)))}

NoPlan == [content |-> <<>>, err |-> "", built |-> FALSE]

PatchIdle ==
    /\ origFile = <<>>
    /\ wsFile = <<>>
    /\ diffOutput = [lines |-> <<>>, trailingNewline |-> FALSE]
    /\ patchPc = "off"
    /\ parsedPatches = <<>>
    /\ opPlan = NoPlan

PatchInit ==
    /\ origFile \in FileContents(MaxContent)
    /\ wsFile = origFile
    /\ diffOutput \in ContextDiffs(origFile) \cup OutOfOrderDiffs(origFile)
    /\ patchPc = "parse"
    /\ parsedPatches = <<>>
    /\ opPlan = NoPlan

\* ApplyOutput: ParseUnifiedDiff of the output
PatchParse ==
    /\ patchPc = "parse"
    /\ LET res == ParseUnifiedDiff(diffOutput)
       IN /\ parsedPatches' = res.patches
          /\ patchPc' = IF res.err # "" THEN "failed" ELSE "build"
    /\ UNCHANGED <<origFile, wsFile, diffOutput, opPlan>>
    /\ UNCHANGED notPatchVars

\* applyPatches, first loop: buildFileOp reads the file and applies the hunks;
\* a slice expression with its low bound above its high bound panics
PatchBuildFileOp ==
    /\ patchPc = "build"
    /\ LET res == applyHunks(wsFile, parsedPatches[1].Hunks)
       IN /\ opPlan' = [content |-> res.content, err |-> res.err, built |-> TRUE]
          /\ patchPc' = IF res.err = ErrSliceBounds THEN "crashed"
                        ELSE IF res.err # "" THEN "failed" ELSE "write"
    /\ UNCHANGED <<origFile, wsFile, diffOutput, parsedPatches>>
    /\ UNCHANGED notPatchVars

\* applyPatches, second loop: os.WriteFile of the plan's content
PatchWrite ==
    /\ patchPc = "write"
    /\ wsFile' = opPlan.content
    /\ patchPc' = "applied"
    /\ UNCHANGED <<origFile, diffOutput, parsedPatches, opPlan>>
    /\ UNCHANGED notPatchVars

PatchNext == PatchParse \/ PatchBuildFileOp \/ PatchWrite

\* ================================================================== Part X
\* the hollowcheck gate: HollowCheckGate.Evaluate, writeArtifact

\* the directory os.MkdirTemp("", "flowgate-hollowcheck-*") returns
HollowTempDir == [abs |-> TRUE, segs |-> <<"tmp", "flowgate-hollowcheck-1">>]

\* path p lies below directory dir, both cleaned and absolute
InsideDir(dir, p) ==
    /\ Len(p.segs) > Len(dir.segs)
    /\ SubSeq(p.segs, 1, Len(dir.segs)) = dir.segs

\* path p is dir or a directory above it: a directory that exists
IsDirAbove(dir, p) ==
    /\ Len(p.segs) <= Len(dir.segs)
    /\ SubSeq(dir.segs, 1, Len(p.segs)) = p.segs

\* the paths a file marker can name: extractFilePath returns no empty path
BlockPaths == {r \in RelInputs : ~IsEmptyPath(r)}

\* the key sets of the map parseMultiFileContent returns: no file block, one
\* of any path, or that and a second one of at most one segment
BlockSets ==
    {{}} \cup {{p} : p \in BlockPaths}
         \cup {{p, q} : p \in BlockPaths, q \in {r \in BlockPaths : Len(r.segs) <= 1}}

\* "artifact" + ext as the one segment it is
ArtifactFile(ext) == [abs |-> FALSE, segs |-> <<"artifact" \o ext>>]

HollowIdle ==
    /\ hcFiles = {}
    /\ hcExt = ".go"
    /\ hcPc = "off"
    /\ hcWritten = {}
    /\ hcLeft = {}
    /\ hcErr = ""

HollowInit ==
    /\ hcFiles \in BlockSets
    /\ hcExt \in {".go", ".py"}
    /\ hcPc = "write"
    /\ hcWritten = {}
    /\ hcLeft = {}
    /\ hcErr = ""

\* Evaluate returns: the deferred os.RemoveAll(tempDir) removes what lies in
\* the temp directory
HollowReturn(written, err) ==
    /\ hcPc' = "done"
    /\ hcErr' = err
    /\ hcLeft' = {p \in written : ~InsideDir(HollowTempDir, p)}

\* writeArtifact, one iteration of the loop over the file blocks, in the
\* order the map gives: os.MkdirAll and os.WriteFile of filepath.Join(dir,
\* path); writing to a directory that exists fails
HollowWriteBlock ==
    /\ hcPc = "write"
    /\ hcFiles # {}
    /\ \E path \in hcFiles, outcome \in {"ok", "mkdirfail", "writefail"} :
         LET fullPath == Join(HollowTempDir, path)
         IN  /\ outcome = "ok" => ~IsDirAbove(HollowTempDir, fullPath)
             /\ hcFiles' = hcFiles \ {path}
             /\ hcWritten' = IF outcome = "ok" THEN hcWritten \cup {fullPath} ELSE hcWritten
             /\ IF outcome # "ok"
                THEN HollowReturn(hcWritten, "failed to write artifact")
                ELSE /\ hcPc' = IF hcFiles = {path} THEN "run" ELSE "write"
                     /\ UNCHANGED <<hcErr, hcLeft>>
    /\ UNCHANGED hcExt
    /\ UNCHANGED notHollowVars

\* writeArtifact without file blocks: the single file artifact<ext>
HollowWriteSingle ==
    /\ hcPc = "write"
    /\ hcFiles = {}
    /\ \E ok \in BOOLEAN :
         IF ok
         THEN /\ hcWritten' = hcWritten \cup {Join(HollowTempDir, ArtifactFile(hcExt))}
              /\ hcPc' = "run"
              /\ UNCHANGED <<hcErr, hcLeft>>
         ELSE /\ HollowReturn(hcWritten, "failed to write artifact")
              /\ UNCHANGED hcWritten
    /\ UNCHANGED <<hcFiles, hcExt>>
    /\ UNCHANGED notHollowVars

\* runHollowcheck on the temp directory, and the return of Evaluate
HollowRun ==
    /\ hcPc = "run"
    /\ \E ok \in BOOLEAN :
         HollowReturn(hcWritten, IF ok THEN "" ELSE "failed to run hollowcheck")
    /\ UNCHANGED <<hcFiles, hcExt, hcWritten>>
    /\ UNCHANGED notHollowVars

HollowNext ==
    \/ HollowWriteBlock
    \/ HollowWriteSingle
    \/ HollowRun

\* ================================================================== specifications

\* one stage run by runStage
Init == StageInit /\ GateIdle /\ ApplyIdle /\ WriterIdle /\ RunIdle /\ ValidateIdle /\ AttestIdle /\ CostIdle /\ PatchIdle /\ HollowIdle

Next == StageNext

Spec == Init /\ [][Next]_vars

\* one command gate built and evaluated
InitGate == StageIdle /\ GateInit /\ ApplyIdle /\ WriterIdle /\ RunIdle /\ ValidateIdle /\ AttestIdle /\ CostIdle /\ PatchIdle /\ HollowIdle

SpecGate == InitGate /\ [][GateNext]_vars

\* one output applied to a workspace
InitApply == StageIdle /\ GateIdle /\ ApplyInit /\ WriterIdle /\ RunIdle /\ ValidateIdle /\ AttestIdle /\ CostIdle /\ PatchIdle /\ HollowIdle

SpecApply == InitApply /\ [][ApplyNext]_vars

\* Write calls on one evidence writer
InitWriter == StageIdle /\ GateIdle /\ ApplyIdle /\ WriterInit /\ RunIdle /\ ValidateIdle /\ AttestIdle /\ CostIdle /\ PatchIdle /\ HollowIdle

SpecWriter == InitWriter /\ [][WriterNext]_vars

\* one pipeline run by Run
InitRun == RunInit /\ GateIdle /\ ApplyIdle /\ WriterIdle /\ ValidateIdle /\ AttestIdle /\ CostIdle /\ PatchIdle /\ HollowIdle

SpecRun == InitRun /\ [][RunNext]_vars

\* Validate called on one manifest
InitValidate == StageIdle /\ GateIdle /\ ApplyIdle /\ WriterIdle /\ RunIdle /\ ValidateInit /\ AttestIdle /\ CostIdle /\ PatchIdle /\ HollowIdle

SpecValidate == InitValidate /\ [][ValidateNext]_vars

\* one attestation built, then verified
InitAttest == StageIdle /\ GateIdle /\ ApplyIdle /\ WriterIdle /\ RunIdle /\ ValidateIdle /\ AttestInit /\ CostIdle /\ PatchIdle /\ HollowIdle

SpecAttest == InitAttest /\ [][AttestNext]_vars

\* one run's adapter calls under a cost tracker
InitCost == StageIdle /\ GateIdle /\ ApplyIdle /\ WriterIdle /\ RunIdle /\ ValidateIdle /\ AttestIdle /\ CostInit /\ PatchIdle /\ HollowIdle

SpecCost == InitCost /\ [][CostNext]_vars

\* one context-only diff applied to one file
InitPatch == StageIdle /\ GateIdle /\ ApplyIdle /\ WriterIdle /\ RunIdle /\ ValidateIdle /\ AttestIdle /\ CostIdle /\ PatchInit /\ HollowIdle

SpecPatch == InitPatch /\ [][PatchNext]_vars

\* one artifact written and checked by the hollowcheck gate
InitHollow == StageIdle /\ GateIdle /\ ApplyIdle /\ WriterIdle /\ RunIdle /\ ValidateIdle /\ AttestIdle /\ CostIdle /\ PatchIdle /\ HollowInit

SpecHollow == InitHollow /\ [][HollowNext]_vars

\* ------------------------------------------------------------------ claims: stage runner

Done == pc = "done"

\* runStage ran its attempt loop to an end of its own (no backend or setup error)
LoopEnded == Done /\ ret.err \notin {ErrAdapter, ErrPrepare}

\* the gate phase of a recorded attempt r failed on an evaluated gate
GateFailedIn(r) ==
    /\ Len(r.GateResults) >= 1
    /\ r.GateResults[Len(r.GateResults)].outcome \in {"fail", "error"}

\* C1 (as claimed): runStage returns success only if the last attempt recorded
\* in the StageRecord has succeeded = true.
C1_SuccessOnlyIfLastSucceeded ==
    ret.kind = "ok" =>
        /\ Len(stageRecord) >= 1
        /\ stageRecord[Len(stageRecord)].Succeeded

\* C2: a failed attempt n >= 2 with the fingerprint and output hash of failed
\* attempt n-1, in a stage that escalated before attempt n, is the last attempt:
\* the stage has returned "repair loop detected", no Generate followed it.
C2_LoopDetectedAfterEscalation ==
    \A n \in 2..Len(state.Attempts) :
        ( /\ state.Attempts[n].ViolationFingerprint = state.Attempts[n - 1].ViolationFingerprint
          /\ state.Attempts[n].OutputHash = state.Attempts[n - 1].OutputHash
          /\ \E i \in 1..Len(promptLog) :
                promptLog[i].kind = "escalation" /\ promptLog[i].after < n )
        => /\ ret = [kind |-> "error", err |-> ErrLoop]
           /\ Len(genLog) = n
           /\ Len(stageRecord) = n
           /\ Len(state.Attempts) = n

C2_Witness ==
    /\ ret.err = ErrLoop
    /\ Len(state.Attempts) >= 3

\* every recorded attempt failed on a gate, and all of them alike: the same
\* content, the same apply error and the same gate results
IdenticalFailures ==
    /\ Len(stageRecord) >= 1
    /\ \A i \in 1..Len(stageRecord) :
          /\ GateFailedIn(stageRecord[i])
          /\ stageRecord[i].OutputHash = stageRecord[1].OutputHash
          /\ stageRecord[i].ApplyError = stageRecord[1].ApplyError
          /\ stageRecord[i].GateResults = stageRecord[1].GateResults

C3_Case ==
    /\ LoopEnded
    /\ stage.MaxRetries >= 2
    /\ stage.FallbackModel = ""
    /\ IdenticalFailures

\* C3: max_retries >= 2, no fallback model, the gate failing alike and the
\* backend returning the same content on every attempt: three attempts and three
\* Generate calls, a repair prompt after attempt 1, escalation after attempt 2,
\* "repair loop detected" at attempt 3.
C3_IdenticalOutputThreeAttempts ==
    C3_Case =>
        /\ Len(stageRecord) = 3
        /\ Len(genLog) = 3
        /\ [i \in 1..3 |-> genLog[i].prompt] = <<"stage", "repair", "escalation">>
        /\ promptLog = <<[kind |-> "repair", after |-> 1],
                         [kind |-> "escalation", after |-> 2]>>
        /\ state.Escalated
        /\ ret = [kind |-> "error", err |-> ErrLoop]

C3_Witness == C3_Case /\ Len(stageRecord) = 3

\* every recorded attempt failed on a gate and no two consecutive attempts
\* had the same output hash
VaryingFailures ==
    /\ Len(stageRecord) >= 1
    /\ Len(state.Attempts) = Len(stageRecord)
    /\ \A i \in 1..Len(stageRecord) : GateFailedIn(stageRecord[i])
    /\ \A i \in 1..(Len(state.Attempts) - 1) :
          state.Attempts[i].OutputHash # state.Attempts[i + 1].OutputHash

C4_Case ==
    /\ LoopEnded
    /\ stage.MaxRetries >= 0
    /\ VaryingFailures

\* C4: max_retries = k, the gate failing on every attempt and the output hash
\* changing between consecutive attempts: k+1 attempts, no escalation, and the
\* stage ends with the gate or apply error, not with "repair loop detected".
C4_VaryingOutputAllAttempts ==
    C4_Case =>
        /\ Len(stageRecord) = stage.MaxRetries + 1
        /\ Len(genLog) = stage.MaxRetries + 1
        /\ ~state.Escalated
        /\ \A i \in 1..Len(promptLog) : promptLog[i].kind = "repair"
        /\ ret.kind = "error"
        /\ ret.err \in {ErrGateFailed, ErrGateError, ErrApproval, ErrClone, ErrApplyOutput}

C4_Witness == C4_Case /\ stage.MaxRetries >= 2 /\ Len(stageRecord) = 3

\* max(1, max_retries + 1)
MaxAttempts == IF stage.MaxRetries + 1 > 1 THEN stage.MaxRetries + 1 ELSE 1

C5_Case ==
    /\ LoopEnded
    /\ stage.MaxRetries = 0
    /\ Len(stageRecord) >= 1
    /\ GateFailedIn(stageRecord[1])

\* C5: a stage makes at most max(1, max_retries+1) attempts (Generate calls and
\* AttemptRecords); with max_retries = 0 and a failing gate there is exactly one
\* attempt, no repair or escalation prompt, and the stage fails.
C5_AttemptBound ==
    /\ Len(genLog) <= MaxAttempts
    /\ Len(stageRecord) <= MaxAttempts
    /\ C5_Case =>
          /\ Len(stageRecord) = 1
          /\ Len(genLog) = 1
          /\ promptLog = <<>>
          /\ ret.kind = "error"

C5_Witness == C5_Case

C5_WitnessAllAttempts == Len(genLog) = MaxAttempts /\ stage.MaxRetries >= 2

Unapproved == stage.Apply /\ opts.ApplyForReal /\ ~opts.ApplyApproved

\* C6 (as claimed): an apply stage run with apply_for_real and without approval
\* returns an error, and its apply step never touches the real workspace root.
C6_UnapprovedApplyFails ==
    Unapproved =>
        /\ realApplies = 0
        /\ Done => ret.kind = "error"

DryRun == stage.Apply /\ ~opts.ApplyForReal

\* C7 (as claimed): in a dry-run apply stage the apply step never touches the
\* real workspace root: every attempt applies to a fresh temp clone and records
\* workspace_mode = "temp" with workspace_used different from the workspace root.
C7_DryRunUsesTempClone ==
    DryRun =>
        /\ realApplies = 0
        /\ \A i \in 1..Len(stageRecord) :
              /\ stageRecord[i].WorkspaceMode = "temp"
              /\ stageRecord[i].WorkspaceUsed # RootPath
              /\ \A j \in 1..Len(stageRecord) :
                    i # j => stageRecord[i].WorkspaceUsed # stageRecord[j].WorkspaceUsed

\* the gates Evaluate was called on during attempt n, in call order
EvaluatedIn(n) ==
    SelectSeq(evalLog, LAMBDA e : e.attempt = n)

\* C10: within an attempt the gates are evaluated in the order the stage lists
\* them, none after a gate that failed or returned an error, and the attempt's
\* recorded gate results are exactly the gates evaluated.
C10_GatesInOrderShortCircuit ==
    /\ \A n \in 1..attempt :
          LET ev == EvaluatedIn(n)
          IN  /\ Len(ev) <= Len(stage.Gates)
              /\ \A i \in 1..Len(ev) : ev[i].name = stage.Gates[i]
              /\ \A i \in 1..(Len(ev) - 1) : ev[i].outcome = "pass"
    /\ \A k \in 1..Len(stageRecord) :
          LET ev == EvaluatedIn(stageRecord[k].Attempt)
              gr == stageRecord[k].GateResults
          IN  /\ Len(gr) = Len(ev)
              /\ \A i \in 1..Len(gr) :
                    gr[i].name = ev[i].name /\ gr[i].outcome = ev[i].outcome

C10_Witness ==
    \E k \in 1..Len(stageRecord) :
        /\ Len(stage.Gates) >= 2
        /\ Len(stageRecord[k].GateResults) = 1
        /\ stageRecord[k].GateResults[1].outcome \in {"fail", "error"}
        /\ k < Len(stageRecord)

\* ---------------------------------------------------------------- the gate
GateEvaluated == gpc = "evaluated"

\* the policy check blocks the command of the gate under evaluation
Blocked == GateEvaluated /\ policyBlockReason(gate) # ""

\* what the claim states of every blocked result but the exit code
BlockedShape ==
    /\ execCalls = 0
    /\ ~gateResult.Passed
    /\ Len(gateResult.Violations) = 1
    /\ gateResult.Violations[1].Rule = "command_blocked"
    /\ gateResult.Diagnostics.BlockedReason # ""

\* C8 (as claimed): when the policy check blocks the command, Evaluate spawns no
\* process and returns passed = false, exactly one violation with rule
\* "command_blocked", a non-empty blocked_reason, and exit_code left unset (the
\* zero value) in diagnostics.
C8_BlockedExitCodeUnset ==
    Blocked => BlockedShape /\ gateResult.Diagnostics.ExitCode = 0

\* C8 (amended): when the policy check blocks the command, Evaluate spawns no
\* process and returns passed = false, exactly one violation with rule
\* "command_blocked", a non-empty blocked_reason, and exit_code 1 in diagnostics.
C8_BlockedResult ==
    Blocked => BlockedShape /\ gateResult.Diagnostics.ExitCode = 1

C8_Witness ==
    /\ Blocked
    /\ gate.policyMode = "templates"
    /\ gateResult.Diagnostics.BlockedReason = "path traversal detected"

\* C9: with deny_shell true a command whose argv starts with sh, bash or zsh and
\* "-c" is blocked whatever capability, templates or allowed list is configured;
\* with deny_shell false and no runtime approval every command is blocked.
C9_ShellDeniedOrUnapproved ==
    GateEvaluated =>
        /\ ( /\ gate.denyShell
              /\ Len(gate.command) >= 2
              /\ gate.command[1] \in {"sh", "bash", "zsh"}
              /\ gate.command[2] = "-c" )
           => ( /\ execCalls = 0
                /\ ~gateResult.Passed
                /\ gateResult.Diagnostics.BlockedReason
                      = "shell execution is denied by policy" )
        /\ (~gate.denyShell /\ ~gate.shellApproved)
           => ( /\ execCalls = 0
                /\ ~gateResult.Passed
                /\ gateResult.Diagnostics.BlockedReason
                      = "shell execution requires explicit approval" )

\* a denied shell command that a configured template would let through
C9_Witness ==
    /\ GateEvaluated
    /\ gate.denyShell
    /\ gate.command = <<"sh", "-c", "echo x">>
    /\ gate.policyMode = "templates"
    /\ matchTemplates(gate.command, gate.templates, gate.workspaceRoot, gate.workdir).ok

\* an unapproved command that is no shell command
C9_WitnessUnapproved ==
    /\ GateEvaluated
    /\ ~gate.denyShell
    /\ ~gate.shellApproved
    /\ gate.command = <<"go", "test", "./...">>
    /\ gateResult.Diagnostics.BlockedReason # ""

\* ------------------------------------------------- the stage, further claims

\* C12 (as claimed): missing approval is fatal: an apply stage run for real
\* without approval ends with the approval error after the first attempt, no
\* repair or escalation prompt is generated and Generate is called once.
C12_ApprovalMissingIsFatal ==
    Unapproved =>
        /\ Len(genLog) <= 1
        /\ promptLog = <<>>
        /\ (Done /\ Len(stageRecord) >= 1) => ret = [kind |-> "error", err |-> ErrApproval]

\* the stage lists a gate whose definition does not build: an unknown
\* capability or an unsupported type
UnbuildableGate ==
    \E i \in 1..Len(stage.Gates) : pipelineGates[stage.Gates[i]] # "command"

\* C13 (as claimed): a stage listing a gate with an unknown capability or of an
\* unsupported type is aborted before any side effect: no Generate call, no
\* output applied, no temp clone, no repair prompt.
C13_UnbuildableGateAbortsFirst ==
    UnbuildableGate =>
        /\ genLog = <<>>
        /\ ~applyRes.applied
        /\ liveClones = {}
        /\ promptLog = <<>>

\* C14 (as claimed): in a dry-run apply stage the temp clone of attempt n is
\* removed before attempt n+1 calls the backend: no clone exists when Generate
\* is about to be called, and never more than one exists.
C14_CloneReleasedBeforeNextAttempt ==
    DryRun =>
        /\ Cardinality(liveClones) <= 1
        /\ pc = "generate" => liveClones = {}

\* ------------------------------------------------- the gate, further claims

\* the command of the gate was let through by the policy check and run
Ran == GateEvaluated /\ execCalls = 1

\* template tmpl alone accepts the command of the gate
AcceptedBy(tmpl) ==
    /\ tmpl.Exec # ""
    /\ matchTemplates(gate.command, <<tmpl>>, gate.workspaceRoot, gate.workdir).ok

\* every argument of the command bound to a {path} of tmpl is relative and has
\* no ".." component
PathArgsPlain(tmpl) ==
    \A i \in 1..Len(tmpl.Args) :
        tmpl.Args[i] = "{path}" =>
            LET a == PathOf(gate.command[i + 1])
            IN  /\ ~a.abs
                /\ \A j \in 1..Len(a.segs) : a.segs[j] # ".."

\* C15 (as claimed): in every argv accepted by matchTemplates the argument bound
\* to a {path} placeholder is not absolute and has no ".." component anywhere
\* in it ("../x" and "a/../b" are both rejected).
C15_PathArgsNoDotDot ==
    Ran => \A k \in 1..Len(gate.templates) :
              AcceptedBy(gate.templates[k]) => PathArgsPlain(gate.templates[k])

\* the definition overrides the working directory with one outside the
\* workspace root
WorkdirOutside ==
    /\ gateDef.Workdir # ""
    /\ ~confinedUnderWorkspace(WorkspaceRoot, gate.workdir).ok

\* C16 (as claimed): a command gate whose definition overrides the working
\* directory with a directory outside the workspace root is blocked and never
\* executed, in every policy mode.
C16_WorkdirOutsideBlocked ==
    (GateEvaluated /\ WorkdirOutside) =>
        /\ execCalls = 0
        /\ gateResult.Diagnostics.BlockedReason # ""

\* C17 (as claimed): an evaluation that is not blocked by policy, a command
\* that could not be started included, returns passed = true exactly when the
\* exit_code in diagnostics is 0.
C17_PassedIffExitZero ==
    Ran => (gateResult.Passed <=> gateResult.Diagnostics.ExitCode = 0)

\* ------------------------------------------------------------- the applier

\* path p is root or lies below it, both made absolute
Descends(root, p) ==
    LET r == Abs(root).segs
        c == Abs(p).segs
    IN  /\ Len(c) >= Len(r)
        /\ SubSeq(c, 1, Len(r)) = r

\* C18: every path safeJoin accepted, and every path the applier wrote,
\* removed or created, is the apply root or a descendant of it.
C18_ApplyStaysUnderRoot ==
    /\ \A i \in 1..Len(opPlans) : Descends(applyRoot, opPlans[i].path)
    /\ \A p \in touched : Descends(applyRoot, p)

\* a target that climbs and comes back ("a/../a") was accepted and written
C18_Witness ==
    /\ apc = "done"
    /\ applyError = ""
    /\ \E i \in 1..Len(opPlans) :
          /\ opPlans[i].climbs
          /\ opPlans[i].path \in touched

\* ------------------------------------------------------ the evidence writer

\* path p lies strictly below the run directory
InsideRunDir(p) ==
    /\ p.abs
    /\ Len(p.segs) > Len(RunDir.segs)
    /\ SubSeq(p.segs, 1, Len(RunDir.segs)) = RunDir.segs

\* C19 (as claimed): whatever Write calls are made, with any non-empty stage
\* and gate names and any blob kind, every file created or overwritten lies
\* inside the run directory.
C19_WritesInsideRunDir ==
    \A f \in disk : InsideRunDir(f.path)

\* the blob files on disk
BlobFiles ==
    {f \in disk : /\ InsideRunDir(f.path)
                   /\ Len(f.path.segs) = Len(RunDir.segs) + 2
                   /\ f.path.segs[Len(RunDir.segs) + 1] = "blobs"}

\* the kinds sanitizeKind can return for the modelled kinds
SanitizedKinds == {sanitizeKind(k) : k \in BlobKinds}

\* C20 (as claimed): WriteBlob(k, B) returns blobs/<sanitized k>-<sha256(B)>.txt
\* and sha256(B), the same for every call with that k and B; exactly one file
\* exists for a returned reference; and every blob file's content hashes to
\* the hash in its file name.
C20_BlobsContentAddressed ==
    /\ \A r \in blobReturns :
          /\ r.sha = sha256Hex(r.content)
          /\ r.ref = "blobs/" \o sanitizeKind(r.kind) \o "-" \o r.sha \o ".txt"
          /\ Cardinality({f \in disk : f.path = blobPath(r.kind, r.content)}) = 1
    /\ \A r1, r2 \in blobReturns :
          (r1.kind = r2.kind /\ r1.content = r2.content)
              => (r1.ref = r2.ref /\ r1.sha = r2.sha)
    /\ \A f \in BlobFiles :
          \E k \in SanitizedKinds :
              f.path.segs[Len(f.path.segs)] = k \o "-" \o sha256Hex(f.content) \o ".txt"

\* ------------------------------------------------------------------ claims: pipeline runner

\* runStage has been entered for the stage at stageIdx
StageEntered == pc # "idle"

\* every stage before the one the loop is at was run and returned success
EarlierStagesSucceeded ==
    /\ Len(stageReturns) \in {stageIdx - 1, stageIdx}
    /\ \A j \in 1..(stageIdx - 1) :
          j <= Len(stageReturns) /\ stageReturns[j].kind = "ok"

\* a stage that returned an error is the last stage entered, and Run has
\* returned an error
StageErrorStopsRun ==
    \A j \in 1..Len(stageReturns) :
        stageReturns[j].kind = "error"
            => /\ j = Len(stageReturns)
               /\ stageIdx = j
               /\ rpc = "done"
               /\ runRet.kind = "error"

C11_WitnessSecondStage ==
    /\ stageIdx = 2
    /\ stageReturns = <<[kind |-> "ok", err |-> ""]>>
    /\ pc = "done"
    /\ genLog # <<>>
    /\ evalLog # <<>>

\* ------------------------------------------------------ claims: applier paths

\* C30 (as claimed): no target path that is absolute or has a ".." segment
\* anywhere is accepted by the applier, and an apply that ended with a path
\* error has written nothing.
C30_DotDotAnywhereRejected ==
    /\ \A i \in 1..Len(opPlans) :
          ~opPlans[i].absolute /\ ~opPlans[i].climbs
    /\ applyError \in {"empty path", "absolute paths are not allowed",
                       "invalid path", "path escapes workspace"}
          => touched = {}

\* ------------------------------------------------------ claims: the manifest check

\* Validate returned nil
Accepted == vpc = "done" /\ verr = ""

\* the gate names the stages of p refer to
ReferencedGates(p) ==
    UNION {{p.Stages[i].Gates[j] : j \in 1..Len(p.Stages[i].Gates)} :
              i \in 1..Len(p.Stages)}

\* non-empty name, at least one stage, every stage with a name and a prompt,
\* stage names pairwise distinct, every referenced gate defined or reserved
WellFormed(p) ==
    /\ p.Name # ""
    /\ Len(p.Stages) >= 1
    /\ \A i \in 1..Len(p.Stages) :
          ~p.Stages[i].nil /\ p.Stages[i].Name # "" /\ p.Stages[i].Prompt # ""
    /\ \A i, j \in 1..Len(p.Stages) :
          i # j => p.Stages[i].Name # p.Stages[j].Name
    /\ \A g \in ReferencedGates(p) : g \in p.Gates \/ g = ReservedGate

\* C26 (as claimed): Validate accepts a manifest exactly when it has a name,
\* at least one stage, named stages with prompts, distinct stage names, and
\* every referenced gate name is defined in the gates map or is "hollowcheck".
C26_AcceptsIffWellFormed ==
    vpc = "done" => (Accepted <=> WellFormed(manifest))

\* C26 (amended): Validate accepts a manifest exactly when it is well formed
\* as above and no stage refers to a gate by the empty name.
C26_AcceptsIffWellFormedNoEmptyGate ==
    vpc = "done" => (Accepted <=> (WellFormed(manifest) /\ "" \notin ReferencedGates(manifest)))

\* a manifest of two stages, one referring to the reserved gate, is accepted
C26_Witness ==
    /\ Accepted
    /\ Len(manifest.Stages) = 2
    /\ ReservedGate \in ReferencedGates(manifest)
    /\ "g1" \in ReferencedGates(manifest)

\* ------------------------------------------------------ claims: template matching

\* the gate has been built
GateBuilt == gpc \in {"built", "evaluated"}

\* the verdict of matchTemplates on the command of the gate
TemplateVerdict ==
    matchTemplates(gate.command, gate.templates, gate.workspaceRoot, gate.workdir)

\* value stands where the template has arg: the same literal, or a value the
\* placeholder admits
PositionFits(arg, value) ==
    CASE arg = "{path}" -> isWorkspaceConfined(gate.workdir, gate.workspaceRoot, value).ok
      [] arg = "{pkg}" -> value \in allowedPkgArgs
      [] OTHER -> value = arg

\* tmpl has the exec of the command, as many arguments, and fits at every
\* position
TemplateFits(tmpl, command) ==
    /\ Len(command) >= 1
    /\ tmpl.Exec = command[1]
    /\ Len(tmpl.Args) = Len(command) - 1
    /\ \A i \in 1..Len(tmpl.Args) : PositionFits(tmpl.Args[i], command[i + 1])

SomeTemplateFits ==
    \E k \in 1..Len(gate.templates) : TemplateFits(gate.templates[k], gate.command)

\* C28 (as claimed): matchTemplates accepts the command only if some template
\* has its exec, exactly its number of arguments, and at every position the
\* same literal or a placeholder the argument satisfies.
C28_AcceptedOnlyIfTemplateFits ==
    (GateBuilt /\ TemplateVerdict.ok) => SomeTemplateFits

\* C28 (amended): with at least one template, matchTemplates accepts the
\* command only if some template fits it as above, and a gate with templates
\* runs its command only then; with no template it accepts every command.
C28_AcceptedOnlyIfTemplateFitsOrNone ==
    /\ (GateBuilt /\ Len(gate.templates) > 0 /\ TemplateVerdict.ok) => SomeTemplateFits
    /\ (Ran /\ Len(gate.templates) > 0) => SomeTemplateFits
    /\ (GateBuilt /\ Len(gate.templates) = 0) => TemplateVerdict.ok

\* a command was run because a template with a placeholder fits it
C28_Witness ==
    /\ Ran
    /\ \E k \in 1..Len(gate.templates) :
          /\ TemplateFits(gate.templates[k], gate.command)
          /\ "{pkg}" \in {gate.templates[k].Args[i] : i \in 1..Len(gate.templates[k].Args)}

\* a command with its arguments out of order was blocked by the templates
C28_WitnessReordered ==
    /\ Blocked
    /\ gate.command = <<"go", "./...", "test">>
    /\ Len(gate.templates) > 0
    /\ \E k \in 1..Len(gate.templates) : gate.templates[k].Exec = "go"

\* ------------------------------------------------------ claims: legacy allowed_commands

\* the definition has allowed_commands and neither capability nor templates,
\* shell commands stay denied, and the command is not a shell command
LegacyOnly ==
    /\ gateDef.Capability = ""
    /\ Len(gateDef.Templates) = 0
    /\ Len(gateDef.AllowedCommands) > 0
    /\ gate.denyShell
    /\ ~isShellCommand(gate.command)

\* the argv joined with single spaces is one of the allowed strings
JoinedIsAllowed ==
    \E i \in 1..Len(gateDef.AllowedCommands) :
        JoinSpace(gate.command) = gateDef.AllowedCommands[i]

\* C29 (as claimed): a gate with only legacy allowed_commands runs a non-shell
\* command exactly when its argv joined with single spaces equals one of the
\* allowed strings as literal text.
C29_LegacyExactMatch ==
    (GateEvaluated /\ LegacyOnly) => (Ran <=> JoinedIsAllowed)

\* ------------------------------------------------------ claims: attestations

Verified == atpc = "verified"

\* C21: an attestation that BuildAttestation built verifies against the
\* unchanged run directory.
C21_BuiltAttestationVerifies ==
    (Verified /\ buildErr = "" /\ tampered = NoChange /\ forged = NoChange)
        => verifyErr = ""

\* a built attestation with two gates, a blob and a gate log was verified
C21_Witness ==
    /\ Verified
    /\ tampered = NoChange /\ forged = NoChange
    /\ verifyErr = ""
    /\ Len(att.Claim.Gates) = 2
    /\ att.Claim.Gates # (CHOOSE f \in adisk : f.path = InRun(<<"stages", "build.json">>)).content.rec.GateResults
    /\ Len(att.Evidence.Blobs) >= 1
    /\ Len(att.Evidence.GateLogs) = 1

\* C22 (as claimed): after one referenced evidence file was changed or
\* removed, VerifyAttestation fails with a hash mismatch.
C22_TamperGivesHashMismatch ==
    (Verified /\ tampered.kind # "none") => verifyErr = "hash mismatch"

\* C22 (amended): after one referenced evidence file was changed,
\* VerifyAttestation fails with a hash mismatch; after one was removed, it
\* fails with a missing-evidence-file error.
C22_TamperFailsVerify ==
    /\ (Verified /\ tampered.kind = "change") => verifyErr = "hash mismatch"
    /\ (Verified /\ tampered.kind = "remove") => verifyErr = "missing evidence file"

\* a blob was changed and the verification ended in a hash mismatch
C22_Witness ==
    /\ Verified
    /\ tampered.kind = "change"
    /\ tampered.rel = RefPrompt
    /\ verifyErr = "hash mismatch"

\* the stage record VerifyAttestation reconstructs the claim from
VerifiedStageRec == FileAt(adisk, Join(RunDir, att.Evidence.StageJSON)).rec

\* C23: VerifyAttestation succeeds only if the schema is empty or v0, every
\* entry of hashes is the sha256 of the file at its path in the run
\* directory, and, for v0, the gate list (compared sorted), gate_count, gated
\* and passed are those reconstructed from the stage JSON.
C23_VerifySuccessMeans ==
    (Verified /\ verifyErr = "") =>
        /\ att.Schema \in {"", SchemaV0}
        /\ \A e \in att.Hashes :
              /\ Exists(adisk, Join(RunDir, e.rel))
              /\ e.sha = fileHash(FileAt(adisk, Join(RunDir, e.rel)))
        /\ att.Schema = SchemaV0 =>
              /\ sortGates(att.Claim.Gates) = sortGates(VerifiedStageRec.GateResults)
              /\ att.Claim.GateCount = Len(VerifiedStageRec.GateResults)
              /\ att.Claim.Gated = (Len(VerifiedStageRec.GateResults) > 0)
              /\ att.Claim.Passed = allPassed(VerifiedStageRec.GateResults)

\* a v0 attestation whose gate list was put in another order was verified
C23_Witness ==
    /\ Verified
    /\ verifyErr = ""
    /\ att.Schema = SchemaV0
    /\ forged.kind = "gates"
    /\ att.Claim.GateCount = 2

\* an attestation with another schema was rejected
C23_WitnessSchema ==
    /\ Verified
    /\ forged.kind = "schema"
    /\ verifyErr = "unknown attestation schema"

\* C24 (as claimed): every file BuildAttestation or VerifyAttestation reads
\* lies in the run directory.
C24_ReadsInsideRunDir ==
    \A p \in opened : underRoot(RunDir, p).ok

\* ------------------------------------------------------------------ claims: budget

BudgetErrors == {ErrBudgetCurrent, ErrBudgetProjected}

\* the accumulated total has reached the budget
TotalReached == tracker.totalAmount >= tracker.maxBudgetUSD

\* the previous call's usage, priced for the target about to be called,
\* would take the total over the budget
ProjectedOver ==
    /\ tracker.lastUsageHint # NoHint
    /\ callTargets[callIdx] # Unpriced
    /\ tracker.totalAmount + tracker.lastUsageHint * callTargets[callIdx] > tracker.maxBudgetUSD

OverBudget == tracker.maxBudgetUSD > 0 /\ (TotalReached \/ ProjectedOver)

\* C25: the check before a backend call never aborts with a budget of 0;
\* with a positive budget it aborts with a budget error, recorded with its
\* reason in the budget status, exactly when the total has reached the
\* budget or the projected total would pass it; a backend call starts only
\* after a check that found neither
C25_BudgetEnforced ==
    [][/\ (callPc = "check" /\ callPc' # "check") =>
              /\ tracker.maxBudgetUSD = 0 => callPc' = "generate"
              /\ OverBudget <=> (callPc' = "returned" /\ callRet' \in BudgetErrors)
              /\ ~OverBudget <=> callPc' = "generate"
              /\ callRet' \in BudgetErrors =>
                     /\ tracker'.budgetStatus.Exceeded
                     /\ tracker'.budgetStatus.Reason = callRet'
                     /\ generateCalls' = generateCalls
       /\ generateCalls' # generateCalls => (callPc = "generate" /\ ~OverBudget)
       /\ (callPc = "returned" /\ callRet \in BudgetErrors) =>
              (callPc' = "aborted" /\ tracker'.budgetStatus.Exceeded
                                   /\ tracker'.budgetStatus.Reason = callRet)]_vars

\* a second call is stopped by the projection while the total is under the budget
C25_Witness ==
    /\ callPc = "aborted"
    /\ callRet = ErrBudgetProjected
    /\ generateCalls = 1
    /\ tracker.totalAmount < tracker.maxBudgetUSD
    /\ tracker.budgetStatus.Exceeded

\* a call is stopped because the total has reached the budget
C25_WitnessTotal ==
    /\ callPc = "aborted"
    /\ callRet = ErrBudgetCurrent
    /\ tracker.totalAmount >= tracker.maxBudgetUSD

\* with a budget of 0 a second backend call starts whatever the total is
C25_WitnessDisabled ==
    /\ tracker.maxBudgetUSD = 0
    /\ tracker.totalAmount >= 4
    /\ callPc = "generate"

\* ------------------------------------------------------------------ claims: unified diff

C27_ContextOnlyApplies == patchPc # "failed"

\* the hunks of the parsed patch are out of order: one starts before the
\* old line an earlier one has consumed
HunksOutOfOrder ==
    /\ parsedPatches # <<>>
    /\ \E i, j \in 1..Len(parsedPatches[1].Hunks) :
          /\ i < j
          /\ parsedPatches[1].Hunks[j].OldStart
                < parsedPatches[1].Hunks[i].OldStart + parsedPatches[1].Hunks[i].OldLines

\* C31: applying a patch whose hunks are out of order or overlapping ends
\* with an error, never with a crash or a written file, and the file keeps
\* its content
C31_OutOfOrderFailsWithError ==
    (HunksOutOfOrder /\ patchPc \notin {"parse", "build"}) =>
        (patchPc = "failed" /\ opPlan.err # "" /\ wsFile = origFile)

\* out-of-order hunks leave the file as it was: nothing is written
C31_OutOfOrderLeavesFile == HunksOutOfOrder => wsFile = origFile

\* a legacy attestation was verified, its hashes and its gate list matching
\* the run directory
LegacyDecided ==
    /\ Verified
    /\ att.Schema = ""
    /\ verifyErr \in {"", "claim.passed mismatch"}
    /\ sortGates(att.Claim.Gates) = sortGates(VerifiedStageRec.GateResults)

\* the last recorded attempt succeeded and has no apply error
LastAttemptOk(rec) ==
    /\ rec.Attempts[Len(rec.Attempts)].Succeeded
    /\ rec.Attempts[Len(rec.Attempts)].ApplyError = ""

\* C32 (as claimed): in legacy mode, hashes and gate list matching, the
\* attestation is accepted exactly when claim.passed equals (last attempt
\* succeeded without apply error) for a record with attempts, and (some
\* gate exists and all gates passed) for a record without
C32_LegacyPassedByAttempts ==
    LegacyDecided =>
        (verifyErr = "" <=>
            att.Claim.Passed =
                IF Len(VerifiedStageRec.Attempts) > 0
                THEN LastAttemptOk(VerifiedStageRec)
                ELSE (Len(VerifiedStageRec.GateResults) > 0
                      /\ \A i \in 1..Len(VerifiedStageRec.GateResults) :
                             VerifiedStageRec.GateResults[i].Passed))

\* C32 (amended): for a record with attempts claim.passed must equal (last
\* attempt succeeded without apply error and every recorded gate result
\* passed); without attempts, (some gate exists and all gates passed)
C32_LegacyPassedByAttemptsAndGates ==
    LegacyDecided =>
        (verifyErr = "" <=>
            att.Claim.Passed =
                (/\ \A i \in 1..Len(VerifiedStageRec.GateResults) :
                        VerifiedStageRec.GateResults[i].Passed
                 /\ IF Len(VerifiedStageRec.Attempts) > 0
                    THEN LastAttemptOk(VerifiedStageRec)
                    ELSE Len(VerifiedStageRec.GateResults) > 0))

\* a legacy attestation claiming passed = false is accepted for a record
\* whose last attempt succeeded while a recorded gate result failed
C32_Witness ==
    /\ LegacyDecided
    /\ verifyErr = ""
    /\ ~att.Claim.Passed
    /\ Len(VerifiedStageRec.Attempts) > 0
    /\ LastAttemptOk(VerifiedStageRec)
    /\ \E i \in 1..Len(VerifiedStageRec.GateResults) : ~VerifiedStageRec.GateResults[i].Passed

\* a legacy attestation claiming passed = true is rejected because the last
\* attempt has an apply error, all gates having passed
C32_WitnessApplyError ==
    /\ LegacyDecided
    /\ verifyErr = "claim.passed mismatch"
    /\ att.Claim.Passed
    /\ Len(VerifiedStageRec.Attempts) > 0
    /\ VerifiedStageRec.Attempts[1].ApplyError # ""
    /\ Len(VerifiedStageRec.GateResults) > 0
    /\ \A i \in 1..Len(VerifiedStageRec.GateResults) : VerifiedStageRec.GateResults[i].Passed

\* ------------------------------------------------------------------ claims: call policy

\* the Generate calls the current call made on target i
CallsOn(i) == {k \in 1..Len(callLog) : callLog[k].idx = i}

\* the targets the current call made a Generate call on
TriedTargets == {callLog[k].idx : k \in 1..Len(callLog)}

\* the call returned its success on the primary target
PrimarySuccess ==
    /\ callPc = "returned"
    /\ callRet = ""
    /\ callLog # <<>>
    /\ callLog[Len(callLog)].idx = 1

\* C33: a call makes at most MaxRetries+1 Generate calls per target; a
\* target is called again only right after a transient error on it; a
\* success on the primary after r transient failures gives exactly one
\* report, with Retries = r and FallbackUsed = false
C33_BoundedRetries ==
    /\ \A i \in 1..Len(callTargets) : Cardinality(CallsOn(i)) <= retryMaxRetries + 1
    /\ \A k \in 2..Len(callLog) :
          callLog[k].idx = callLog[k - 1].idx => callLog[k - 1].outcome = "transient"
    /\ PrimarySuccess =>
          /\ \A k \in 1..(Len(callLog) - 1) : callLog[k].outcome = "transient"
          /\ Len(callReports) = 1
          /\ callReports[1].Retries = Len(callLog) - 1
          /\ ~callReports[1].FallbackUsed
          /\ callReports[1].Error = ""

\* the primary succeeded on its second attempt, after one transient failure
C33_Witness ==
    /\ PrimarySuccess
    /\ Len(callLog) = 2
    /\ callLog[1].outcome = "transient"
    /\ callReports[1].Retries = 1

\* a permanent error on the primary, retries being left, was not retried
C33_WitnessPermanent ==
    /\ callLog # <<>>
    /\ callLog[1].outcome = "permanent"
    /\ retryMaxRetries = 1
    /\ Cardinality(CallsOn(1)) = 1
    /\ callPc = "returned"

\* the call returned with fallback allowed, after the primary target
\* failed for good
PrimaryFailed ==
    /\ callPc = "returned"
    /\ fallbackCfg.AllowFallback
    /\ callReports # <<>>
    /\ callReports[1].Error # ""

\* every target was called and no call succeeded
EveryTargetFailed ==
    /\ TriedTargets = 1..Len(callTargets)
    /\ \A k \in 1..Len(callLog) : callLog[k].outcome # "ok"

\* the targets were called in the configured order, the call ending with
\* the first success
TriedInOrder ==
    /\ Tail(callTargets) = resolveFallbackChain(fallbackCfg)
    /\ callLog[1].idx = 1
    /\ \A k \in 2..Len(callLog) : callLog[k].idx \in {callLog[k - 1].idx, callLog[k - 1].idx + 1}
    /\ \A k \in 1..(Len(callLog) - 1) : callLog[k].outcome # "ok"
    /\ callRet = "" <=> callLog[Len(callLog)].outcome = "ok"

\* the backoff sleep after the last Generate call was cancelled
SleepCancelled ==
    /\ callRet = ErrCancelled
    /\ callLog # <<>>
    /\ callLog[Len(callLog)].outcome = "transient"

C34_WitnessBudget ==
    /\ PrimaryFailed
    /\ callRet \in BudgetErrors
    /\ TriedTargets = {1}

\* C40: after a Generate call returned context.Canceled no further Generate
\* call is made, on the same target or on a fallback target, and a call
\* whose backoff sleep was cancelled returns at once
C40_NoCallAfterCancel ==
    /\ \A k \in 2..Len(callLog) : callLog[k - 1].outcome # "canceled"
    /\ (callLog # <<>> /\ callLog[Len(callLog)].outcome = "canceled")
           => (callPc = "returned" /\ callRet = ErrCancelled)

\* a target is never called again after context.Canceled on it
C40_NoRetryAfterCancel ==
    \A k \in 2..Len(callLog) :
        callLog[k - 1].outcome = "canceled" => callLog[k].idx # callLog[k - 1].idx

\* ------------------------------------------------------------------ claims: run evidence

\* Run has returned in the iteration of a stage that failed
StageFailedRun ==
    /\ rpc = "done"
    /\ stageReturns # <<>>
    /\ stageReturns[Len(stageReturns)].kind = "error"

\* the stage records written so far are those of the stages 1..k, in order
RecordsUpTo(k) ==
    /\ Len(runDirWrites.stages) = k
    /\ \A i \in 1..k : runDirWrites.stages[i].idx = i

\* C35 (as claimed): when Run returns because stage k failed, run.json and
\* the stage records of the stages 1..k are written, and the record of
\* stage k has one attempt record, succeeded = false, for every attempt made
C35_FailedRunLeavesRecords ==
    StageFailedRun =>
        /\ runDirWrites.run
        /\ RecordsUpTo(Len(stageReturns))
        /\ runDirWrites.stages[Len(stageReturns)].attempts = Len(genLog)
        /\ runDirWrites.stages[Len(stageReturns)].succeeded \subseteq {FALSE}

\* C35 (amended): run.json and the records of the stages before k are
\* written; the record of stage k is written unless its WriteStage failed,
\* which Run then returns; it has one attempt record for every attempt
\* whose backend call returned, none for the attempt the backend failed,
\* and all have succeeded = false unless the stage failed in writing its
\* output blob
C35_FailedRunLeavesRecordsWritten ==
    StageFailedRun =>
        LET k == Len(stageReturns)
            made == Len(genLog) - (IF ret.err = ErrAdapter THEN 1 ELSE 0)
        IN  /\ runDirWrites.run
            /\ IF runRet.err = ErrWriteStage
               THEN RecordsUpTo(k - 1)
               ELSE /\ RecordsUpTo(k)
                    /\ runRet.err = ret.err
                    /\ runDirWrites.stages[k].attempts = made
                    /\ ret.err # ErrOutputBlob => runDirWrites.stages[k].succeeded \subseteq {FALSE}

\* the second stage failed after two attempts and both records are written
C35_Witness ==
    /\ StageFailedRun
    /\ Len(stageReturns) = 2
    /\ RecordsUpTo(2)
    /\ runDirWrites.stages[2].attempts = 2
    /\ runDirWrites.stages[2].succeeded = {FALSE}

\* the backend failed on the second attempt: the record has one attempt
C35_WitnessAdapterError ==
    /\ StageFailedRun
    /\ ret.err = ErrAdapter
    /\ Len(genLog) = 2
    /\ RecordsUpTo(Len(stageReturns))
    /\ runDirWrites.stages[Len(stageReturns)].attempts = 1

\* ------------------------------------------------------------------ claims: failed stages

\* the record runStage leaves for a stage that failed in its attempt loop:
\* the prompt is set, every attempt is recorded as failed, and the output
\* reference and the gate results, set only on success, are empty
RunnerFailedRecord(rec) ==
    /\ rec.PromptRef = RefPrompt
    /\ rec.OutputRef = NoRef
    /\ rec.GateResults = <<>>
    /\ rec.Attempts # <<>>
    /\ \A i \in 1..Len(rec.Attempts) : ~rec.Attempts[i].Succeeded

\* the attestation of stage "build" is built from the record of a failed stage
BuiltFromFailedStage ==
    /\ atpc = "built"
    /\ attStage = <<"build">>
    /\ RunnerFailedRecord(FileAt(adisk, InRun(<<"stages", "build.json">>)).rec)

\* C36: an attestation built from the record the runner wrote for a failed
\* stage, all of whose attempts have succeeded = false, never claims that
\* the stage passed
C36_FailedStageNotPassed ==
    BuiltFromFailedStage => ~att.Claim.Passed

\* ------------------------------------------------------------------ claims: escalation

\* attempt j ended in the escalation and attempt j + 1 failed with the
\* content and the violations of attempt j
RepeatsAfterEscalation(j) ==
    /\ [kind |-> "escalation", after |-> j] \in {promptLog[i] : i \in 1..Len(promptLog)}
    /\ Len(stageRecord) >= j + 1
    /\ Len(state.Attempts) >= j + 1
    /\ ~stageRecord[j + 1].Succeeded
    /\ stageRecord[j + 1].OutputHash = stageRecord[j].OutputHash
    /\ state.Attempts[j + 1].ViolationFingerprint = state.Attempts[j].ViolationFingerprint

\* C37: when the stage has a fallback model and has escalated to it, an
\* attempt right after the escalation that fails with the same content and
\* the same violations ends the stage with the repair loop error
C37_LoopDetectedAfterModelSwitch ==
    \A j \in 1..(MaxRetriesBound + 1) :
        (stage.FallbackModel # "" /\ RepeatsAfterEscalation(j)) =>
            /\ pc = "done"
            /\ ret = [kind |-> "error", err |-> ErrLoop]
            /\ Len(stageRecord) = j + 1

\* the same without a fallback model: the repetition is detected
C37_LoopDetectedSameModel ==
    \A j \in 1..(MaxRetriesBound + 1) :
        (stage.FallbackModel = "" /\ RepeatsAfterEscalation(j)) =>
            /\ pc = "done"
            /\ ret = [kind |-> "error", err |-> ErrLoop]
            /\ Len(stageRecord) = j + 1

\* ------------------------------------------------------------------ claims: all or nothing

\* the errors of the first loop: path validation and hunk matching
ValidationErrors ==
    {"empty path", "absolute paths are not allowed", "invalid path",
     "path escapes workspace", ErrApplyPatch}

\* C38: when a patch or file block fails path validation or hunk matching,
\* ApplyOutput returns the error and no file under the root has been
\* created, modified or deleted, however many patches before it were valid
C38_ValidationAllOrNothing ==
    /\ applyError \in ValidationErrors => (apc = "done" /\ touched = {} /\ applied = 0)
    /\ apc = "crashed" => (touched = {} /\ applied = 0)

\* the second patch failed after a valid first one
C38_Witness ==
    /\ apc = "done"
    /\ applyError \in ValidationErrors
    /\ Len(opPlans) = 1
    /\ touched = {}

\* the second patch failed hunk matching after a valid first one
C38_WitnessHunks ==
    /\ apc = "done"
    /\ applyError = ErrApplyPatch
    /\ Len(opPlans) = 1

\* ------------------------------------------------------------------ claims: hollowcheck

\* C39: every file writeArtifact creates for the file blocks of an artifact
\* lies inside the temp directory of the gate, whatever path a block names
C39_FilesInsideTempDir ==
    \A p \in hcWritten : InsideDir(HollowTempDir, p)

====
